---- MODULE Spec2Model ----
(***************************************************************************)
(* SentinEL event-to-action decision pipeline.                             *)
(*                                                                         *)
(* The model follows src/src/agent_brain.py (the five stages and the       *)
(* graph that orders them), src/src/perception.py (the Risk Matcher),      *)
(* src/src/reasoning.py (the reasoning collaborator and its fallbacks),    *)
(* src/src/metrics.py (the Metrics Tracker), src/src/memory_store.py (the  *)
(* Audit Store), src/src/observability.py (telemetry) and                  *)
(* src/src/actions.py (the action executors).                              *)
(*                                                                         *)
(* Text is a sequence of atoms. A location is a sequence of characters; a  *)
(* topic, a cargo type and a recommendation are sequences of words and     *)
(* blanks. Python's `x in y` on strings is `IsSubstring(x, y)`.            *)
(* Numbers with a fractional part are kept as integers in a fixed unit:    *)
(* confidence in hundredths (0.7 is 70), days saved in tenths (4.2 is 42). *)
(***************************************************************************)
EXTENDS Integers, Sequences, FiniteSets, TLC

VARIABLES
    pc,                 \* position of the current run in the graph
    entry,              \* how the current run was started: "graph" or "act"
    raw_event,          \* AgentState.raw_event
    active_shipments,   \* AgentState.active_shipments
    affected_shipments, \* AgentState.affected_shipments
    analysis_logs,      \* AgentState.analysis_logs
    decisions,          \* AgentState.decisions
    actions_taken,      \* ACT's local list of executor results
    idx,                \* index of the next decision of ACT's loop
    metricsEvents,      \* MetricsTracker.events
    memoryEvents,       \* the rows of the Audit Store's events table
    emitted,            \* notices put on broadcast_queue by the current run
    executorCalls,      \* executor calls made by the current run, each with the
                        \* position of its decision and the fate of its record
    llmLog,             \* per call of invoke_with_fallback in this run: did it fail
    dispatched,         \* event ids for which an executor call was ever made
                        \* and returned
    sinkFailed,         \* a telemetry delivery failed during the current run
    error,              \* the exception that left the current run, if any
    reasoning,          \* SentinelAgent.reasoning, the ReasoningEngine
    now,                \* the last reading of the wall clock, time.time()
    writers,            \* per process writing the Audit Store: its position in
                        \* store_event and the rows it has still to write
    dbLock,             \* the process holding SQLite's write lock, if any
    committed,          \* the rows committed to the events table, in order
    lastCall,           \* the last call made on the Metrics Tracker
    snap,               \* what the last get_metrics_snapshot returned
    called,             \* the arguments of a function applied on its own
    returned            \* what that application returned

(* The state of one run of the pipeline *)
runVars == <<pc, entry, raw_event, active_shipments, affected_shipments,
             analysis_logs, decisions, actions_taken, idx, emitted,
             executorCalls, llmLog, dispatched, sinkFailed, error, reasoning>>

(* The state of the processes that share the Audit Store *)
storeVars == <<writers, dbLock, committed>>

(* The record of the calls made on the Metrics Tracker from outside a run *)
trackerVars == <<lastCall, snap>>

(* One application of a function of the program outside a run *)
callVars == <<called, returned>>

sideVars == <<storeVars, trackerVars, callVars>>

vars == <<runVars, metricsEvents, memoryEvents, now, sideVars>>

----------------------------------------------------------------------------
(* Bounds of the model. *)

(* The clock advances by at most MaxClock seconds during a run *)
MaxClock == 1

(* The clock's first reading, in seconds *)
Epoch == 30

----------------------------------------------------------------------------
(* Python values. *)

None == <<>>
Some(x) == <<x>>

Min(a, b) == IF a <= b THEN a ELSE b

(* dict assignment d[k] = v *)
DictSet(d, k, v) == [x \in (DOMAIN d) \cup {k} |-> IF x = k THEN v ELSE d[x]]

(* str.lower() on one atom *)
LowerAtom(c) ==
    CASE c = "S" -> "s"
      [] c = "Z" -> "z"
      [] c = "N" -> "n"
      [] c = "R" -> "r"
      [] c = "Strike" -> "strike"
      [] c = "Tariff" -> "tariff"
      [] c = "Blockage" -> "blockage"
      [] c = "Port" -> "port"
      [] c = "Weather" -> "weather"
      [] c = "Suez" -> "suez"
      [] c = "Canal" -> "canal"
      [] c = "Route" -> "route"
      [] c = "EU" -> "eu"
      [] OTHER -> c

Lower(s) == [k \in 1..Len(s) |-> LowerAtom(s[k])]

IsSpace(c) == c = " "

RECURSIVE LStrip(_)
LStrip(s) == IF s # <<>> /\ IsSpace(Head(s)) THEN LStrip(Tail(s)) ELSE s

RECURSIVE RStrip(_)
RStrip(s) ==
    IF s # <<>> /\ IsSpace(s[Len(s)]) THEN RStrip(SubSeq(s, 1, Len(s) - 1)) ELSE s

(* str.strip() *)
Strip(s) == RStrip(LStrip(s))

(* Python's `needle in hay` for strings *)
IsSubstring(needle, hay) ==
    \E k \in 0..(Len(hay) - Len(needle)) :
        SubSeq(hay, k + 1, k + Len(needle)) = needle

----------------------------------------------------------------------------
(* Risk Matcher, src/src/perception.py *)

normalize_location(loc_str) == Strip(Lower(loc_str))

(* A matcher that looks at the current location only, one way *)
check_intersection_location_only(event_location, shipment) ==
    IsSubstring(normalize_location(event_location),
                normalize_location(shipment.current_location))

(* A matcher that matches nothing when the event has no location *)
check_intersection_needs_location(event_location, shipment) ==
    LET evt_loc == normalize_location(event_location)
        shp_loc == normalize_location(shipment.current_location)
        shp_route == normalize_location(shipment.route_id)
    IN  /\ evt_loc # <<>>
        /\ \/ IsSubstring(evt_loc, shp_loc)
           \/ IsSubstring(shp_loc, evt_loc)
           \/ IsSubstring(evt_loc, shp_route)

check_intersection(event_location, shipment) ==
    LET evt_loc == normalize_location(event_location)
        shp_loc == normalize_location(shipment.current_location)
        shp_route == normalize_location(shipment.route_id)
    IN  \/ IsSubstring(evt_loc, shp_loc)
        \/ IsSubstring(shp_loc, evt_loc)
        \/ IsSubstring(evt_loc, shp_route)

(* 10 * shipment_multiplier: 1.5 for medical cargo, else 1.0 *)
ShipmentMultiplier10(shipment) ==
    IF IsSubstring(<<"Medical">>, shipment.cargo_type) THEN 15 ELSE 10

(* A score without the cap *)
calculate_risk_score_unclamped(event, shipment) ==
    event.severity * ShipmentMultiplier10(shipment)

calculate_risk_score(event, shipment) ==
    Min(event.severity * ShipmentMultiplier10(shipment), 100)

DirectContext(event, shp) ==
    [shipment_id |-> shp.shipment_id,
     route_id |-> shp.route_id,
     current_location |-> shp.current_location,
     cargo_type |-> shp.cargo_type,
     risk_score |-> calculate_risk_score(event, shp),
     trigger_event_id |-> event.event_id,
     inference_note |-> None]

RECURSIVE DirectMatches(_, _)
DirectMatches(event, shipments) ==
    IF shipments = <<>> THEN <<>>
    ELSE LET shp == Head(shipments)
             rest == DirectMatches(event, Tail(shipments))
         IN  IF check_intersection(event.location, shp)
             THEN <<DirectContext(event, shp)>> \o rest
             ELSE rest

BaseRisk(event) ==
    LET topic == Lower(event.topic)
    IN  IF IsSubstring(<<"strike">>, topic) \/ IsSubstring(<<"blockage">>, topic)
        THEN 75
        ELSE IF IsSubstring(<<"tariff">>, topic) THEN 55 ELSE 45

InferredContext(event, shp, perturbation) ==
    [shipment_id |-> shp.shipment_id,
     route_id |-> shp.route_id,
     current_location |-> shp.current_location,
     cargo_type |-> shp.cargo_type,
     risk_score |-> Min(100, BaseRisk(event) + perturbation),
     trigger_event_id |-> event.event_id,
     inference_note |-> Some(event.location)]

(* random.sample(active_shipments, n): every ordered choice of n distinct   *)
(* positions of the pool                                                    *)
SamplesWithRepeats(pool, n) == [1..n -> 1..Len(pool)]

Samples(pool, n) ==
    {s \in [1..n -> 1..Len(pool)] : \A a, b \in 1..n : a # b => s[a] # s[b]}

(* random.randint(-10, 20), sampled at the two ends of the range *)
Perturbations == {-10, 20}

(* A matcher whose inference has no severity floor *)
detect_affected_shipments_no_floor(event, shipments) ==
    LET direct == DirectMatches(event, shipments)
        num_affected == Min(2, Len(shipments))
    IN  IF direct = <<>> /\ shipments # <<>>
        THEN {[k \in 1..num_affected |->
                  InferredContext(event, shipments[sel[k]], pert[k])] :
                sel \in Samples(shipments, num_affected),
                pert \in [1..num_affected -> Perturbations]}
        ELSE {direct}

(* A matcher whose inference also runs after direct matches were found *)
detect_affected_shipments_always_infers(event, shipments) ==
    LET direct == DirectMatches(event, shipments)
        num_affected == Min(2, Len(shipments))
    IN  IF event.severity >= 5 /\ shipments # <<>>
        THEN {direct \o [k \in 1..num_affected |->
                  InferredContext(event, shipments[sel[k]], pert[k])] :
                sel \in Samples(shipments, num_affected),
                pert \in [1..num_affected -> Perturbations]}
        ELSE {direct}

(* The results detect_affected_shipments can return *)
detect_affected_shipments(event, shipments) ==
    LET direct == DirectMatches(event, shipments)
        num_affected == Min(2, Len(shipments))
    IN  IF direct = <<>> /\ event.severity >= 5 /\ shipments # <<>>
        THEN {[k \in 1..num_affected |->
                  InferredContext(event, shipments[sel[k]], pert[k])] :
                sel \in Samples(shipments, num_affected),
                pert \in [1..num_affected -> Perturbations]}
        ELSE {direct}

(* A matcher that enriches the caller's dicts: ctx = shp instead of         *)
(* ctx = shp.copy()                                                         *)
shipments_after_aliased(shipments, affected) ==
    [k \in DOMAIN shipments |->
        IF \E a \in DOMAIN affected :
              affected[a].shipment_id = shipments[k].shipment_id
        THEN affected[CHOOSE a \in DOMAIN affected :
                         affected[a].shipment_id = shipments[k].shipment_id]
        ELSE shipments[k]]

(* The caller's list after detect_affected_shipments: every context is      *)
(* built on shp.copy(), so the item assignments land on the copies          *)
shipments_after(shipments, affected) == shipments

----------------------------------------------------------------------------
(* Reasoning collaborator, src/src/reasoning.py *)

Failed == <<"<raised>">>

(* Texts a provider answers with when asked for a recommendation *)
Responses ==
    {<<"CRITICAL", "REROUTE">>,
     <<"ADVISORY", "MONITOR", "CRITICAL", "ROUTES">>,
     <<"WARNING", "ALERT", "CRITICAL", "CARGO", " ">>}

(* What the configured providers can do in one call: raise, or answer *)
RecommendOutcomes == [primary : {Failed} \cup Responses,
                      fallback1 : {Failed, <<"CRITICAL", "REROUTE">>},
                      fallback2 : {Failed}]

AnalysisOutcomes == [primary : {Failed, <<"Impact">>},
                     fallback1 : {Failed, <<"Impact">>},
                     fallback2 : {Failed}]

(* ReasoningEngine.__init__: which clients have an API key *)
EngineConfigs ==
    {[primary |-> FALSE, fallback1 |-> FALSE, fallback2 |-> FALSE],
     [primary |-> TRUE, fallback1 |-> TRUE, fallback2 |-> TRUE]}

(* The value returned, or None when every configured client raised *)
invoke_with_fallback(engine, out) ==
    IF engine.primary /\ out.primary # Failed THEN Some(out.primary)
    ELSE IF engine.fallback1 /\ out.fallback1 # Failed THEN Some(out.fallback1)
    ELSE IF engine.fallback2 /\ out.fallback2 # Failed THEN Some(out.fallback2)
    ELSE None

(* analyze_impact: the response when it is truthy, else the mock analysis *)
analyze_impact(engine, out) ==
    LET response == invoke_with_fallback(engine, out)
    IN  IF response # None /\ response[1] # <<>> THEN response[1]
        ELSE <<"Mock", "Analysis">>

(* A fallback without the WARNING tier *)
FallbackTwoTiers(risk_score) ==
    IF risk_score > 80 THEN <<"CRITICAL", "REROUTE", "REQUIRED">>
    ELSE <<"ADVISORY", "PROCEED", "WITH", "CAUTION">>

(* A fallback whose thresholds include 80 and 50 *)
FallbackInclusive(risk_score) ==
    IF risk_score >= 80 THEN <<"CRITICAL", "REROUTE", "REQUIRED">>
    ELSE IF risk_score >= 50 THEN <<"WARNING", "ALERT", "ISSUED">>
    ELSE <<"ADVISORY", "PROCEED", "WITH", "CAUTION">>

(* The threshold recommendation used when no client answered *)
FallbackRecommendation(risk_score) ==
    IF risk_score > 80 THEN <<"CRITICAL", "REROUTE", "REQUIRED">>
    ELSE IF risk_score > 50 THEN <<"WARNING", "ALERT", "ISSUED">>
    ELSE <<"ADVISORY", "PROCEED", "WITH", "CAUTION">>

recommend_action(engine, out, risk_score) ==
    LET response == invoke_with_fallback(engine, out)
    IN  IF response # None /\ response[1] # <<>> THEN Strip(response[1])
        ELSE FallbackRecommendation(risk_score)

----------------------------------------------------------------------------
(* Metrics Tracker, src/src/metrics.py *)

(* A tracker that keeps the first detection of an event id *)
track_detection_keep_first(events, event_id, occurred_at, t) ==
    IF event_id \in DOMAIN events THEN events
    ELSE DictSet(events, event_id,
                 [event_id |-> event_id,
                  occurred_at |-> IF occurred_at = None \/ occurred_at = Some(0)
                                  THEN t ELSE occurred_at[1],
                  detected_at |-> t,
                  action_at |-> None,
                  days_saved |-> 0])

(* A tracker whose re-detection keeps the action already recorded *)
track_detection_keep_action(events, event_id, occurred_at, t) ==
    DictSet(events, event_id,
            [event_id |-> event_id,
             occurred_at |-> IF occurred_at = None \/ occurred_at = Some(0)
                             THEN t ELSE occurred_at[1],
             detected_at |-> t,
             action_at |-> IF event_id \in DOMAIN events
                           THEN events[event_id].action_at ELSE None,
             days_saved |-> IF event_id \in DOMAIN events
                            THEN events[event_id].days_saved ELSE 0])

(* track_detection: occurred_at is None when the caller passed a falsy one *)
track_detection(events, event_id, occurred_at, t) ==
    DictSet(events, event_id,
            [event_id |-> event_id,
             occurred_at |-> IF occurred_at = None \/ occurred_at = Some(0)
                             THEN t ELSE occurred_at[1],
             detected_at |-> t,
             action_at |-> None,
             days_saved |-> 0])

(* A tracker whose track_action creates the event when it is not there *)
track_action_upsert(events, event_id, days_saved, t) ==
    DictSet(events, event_id,
            [event_id |-> event_id,
             occurred_at |-> IF event_id \in DOMAIN events
                             THEN events[event_id].occurred_at ELSE t,
             detected_at |-> IF event_id \in DOMAIN events
                             THEN events[event_id].detected_at ELSE t,
             action_at |-> Some(t),
             days_saved |-> days_saved])

(* A tracker that keeps the first action recorded for an event *)
track_action_keep_first(events, event_id, days_saved, t) ==
    IF event_id \in DOMAIN events /\ events[event_id].action_at = None
    THEN [events EXCEPT ![event_id].action_at = Some(t),
                        ![event_id].days_saved = days_saved]
    ELSE events

track_action(events, event_id, days_saved, t) ==
    IF event_id \in DOMAIN events
    THEN [events EXCEPT ![event_id].action_at = Some(t),
                        ![event_id].days_saved = days_saved]
    ELSE events

(* round(num / den, 1), in tenths *)
RoundTenths(num, den) ==
    LET q == (10 * num) \div den
        r == (10 * num) % den
    IN  IF 2 * r > den THEN q + 1
        ELSE IF 2 * r < den THEN q
        ELSE IF q % 2 = 0 THEN q ELSE q + 1

RECURSIVE SumOf(_, _)
SumOf(ids, val) ==
    IF ids = {} THEN 0
    ELSE LET id == CHOOSE x \in ids : TRUE
         IN  val[id] + SumOf(ids \ {id}, val)

(* A snapshot that counts only the events whose detection delta is kept *)
valid_detections_kept(events) ==
    {id \in DOMAIN events : events[id].detected_at - events[id].occurred_at >= 0}

valid_detections(events) == DOMAIN events

(* A snapshot that takes as acted only the events with more than 2 days saved *)
valid_actions_with_savings(events) ==
    {id \in valid_detections(events) :
        events[id].action_at # None /\ events[id].days_saved > 20}

valid_actions(events) ==
    {id \in valid_detections(events) : events[id].action_at # None}

(* A mean that counts a negative delta as 0 *)
MeanOfDeltasClamped(ids, delta) ==
    IF ids = {} THEN 0
    ELSE RoundTenths(SumOf(ids, [id \in ids |->
                                    IF delta[id] < 0 THEN 0 ELSE delta[id]]),
                     Cardinality(ids))

(* sum(deltas) / len(deltas) over the deltas that are >= 0, rounded, in     *)
(* tenths of a second; 0 when no delta is left                              *)
MeanOfDeltas(ids, delta) ==
    LET kept == {id \in ids : delta[id] >= 0}
    IN  IF kept = {} THEN 0
        ELSE RoundTenths(SumOf(kept, delta), Cardinality(kept))

COST_PER_DAY == 50000

get_metrics_snapshot(events) ==
    LET seen == valid_detections(events)
        acted == valid_actions(events)
        mttd == IF seen = {} THEN None
                ELSE Some(MeanOfDeltas(seen,
                        [id \in seen |->
                            events[id].detected_at - events[id].occurred_at]))
        mtta == IF acted = {} THEN None
                ELSE Some(MeanOfDeltas(acted,
                        [id \in acted |->
                            events[id].action_at[1] - events[id].detected_at]))
        total_days == SumOf(acted, [id \in acted |-> events[id].days_saved])
    IN  [mttd_seconds |-> mttd,
         mtta_seconds |-> mtta,
         estimated_days_saved |-> total_days,
         estimated_cost_saved |-> (total_days * COST_PER_DAY) \div 10,
         events_prevented |->
             Cardinality({id \in acted : events[id].days_saved > 20}),
         predicted_delays |-> Cardinality(seen) - Cardinality(acted),
         events_seen |-> Cardinality(seen),
         actions_taken |-> Cardinality(acted)]

----------------------------------------------------------------------------
(* Audit Store, src/src/memory_store.py *)

StoredEvent(event, dec, t, action_taken, days_saved) ==
    [event_id |-> event.event_id,
     timestamp |-> t,
     location |-> event.location,
     event_type |-> event.topic,
     severity |-> dec.risk,
     action_taken |-> action_taken,
     days_saved |-> days_saved]

(* A write that keys the row by its action instead of its event id *)
store_event_by_action(rows, event) == DictSet(rows, event.action_taken, event)

(* INSERT OR IGNORE: a row whose event id is present is not written *)
store_event_or_ignore(rows, event) ==
    IF event.event_id \in DOMAIN rows THEN rows
    ELSE DictSet(rows, event.event_id, event)

(* An upsert that refreshes the timestamp of a present row and keeps the    *)
(* rest of it                                                               *)
store_event_keep_fields(rows, event) ==
    IF event.event_id \in DOMAIN rows
    THEN [rows EXCEPT ![event.event_id].timestamp = event.timestamp]
    ELSE DictSet(rows, event.event_id, event)

(* INSERT OR REPLACE keyed by event_id *)
store_event(rows, event) == DictSet(rows, event.event_id, event)

----------------------------------------------------------------------------
(* Telemetry, src/src/observability.py *)

SinkOutcomes == {"ok", "http_error", "unreachable", "timeout"}

(* How AgentTelemetry.emit ends for each outcome of the HTTP bridge: the    *)
(* put on the unbounded queue returns at once, the post is bounded by its   *)
(* timeout and every exception of the bridge is caught                      *)
BridgeRaises(sink) == sink \in {"unreachable", "timeout"}

(* emit without its try/except around the bridge *)
emit_unguarded(sink) == IF BridgeRaises(sink) THEN "raised" ELSE "returned"

emit(sink) ==
    LET caught == TRUE   \* except Exception: pass
    IN  IF BridgeRaises(sink) /\ ~caught THEN "raised" ELSE "returned"

Notice(stage, event_id, result, shipment_id) ==
    [agent_state |-> stage, event_id |-> event_id, result |-> result,
     shipment_id |-> shipment_id]

----------------------------------------------------------------------------
(* Action executors, src/src/actions.py *)

(* What the backend of an executor can do when it is configured; "hang" is  *)
(* a call made without a timeout that never returns                         *)
BackendOutcomes == {"unconfigured", "ok", "fail", "hang"}

send_email_alert(backend) ==
    CASE backend = "unconfigured" -> "Dry-Run Sent"
      [] backend = "ok" -> "Email Sent (Real)"
      [] backend = "fail" -> "Email Failed"
      [] OTHER -> "<never returns>"

trigger_slack_notification(backend) ==
    CASE backend = "unconfigured" -> "Dry-Run Slack"
      [] backend = "ok" -> "Slack Sent (Real)"
      [] backend = "fail" -> "Slack Failed"
      [] OTHER -> "<never returns>"

----------------------------------------------------------------------------
(* The clock *)

(* A reading of time.time() after the reading t: not earlier than t *)
ClockReads(t) == t..Min(t + 1, Epoch + MaxClock)

----------------------------------------------------------------------------
(* Inputs of the pipeline *)

EventIds == {"EVT_1", "EVT_2"}

LocSuez == <<"S", "z">>
LocNowhere == <<"N">>
TopicStrike == <<"Port", " ", "Strike">>

SHP_A == [shipment_id |-> "SHP_A", route_id |-> <<"R", "1">>,
          current_location |-> <<" ", "s", "z">>, cargo_type |-> <<"Medical">>]
SHP_B == [shipment_id |-> "SHP_B", route_id |-> <<"R", "_", "S", "z">>,
          current_location |-> <<"x">>, cargo_type |-> <<>>]
SHP_C == [shipment_id |-> "SHP_C", route_id |-> <<"R", "2">>,
          current_location |-> <<"y">>, cargo_type |-> <<"Electronics">>]

Pools == {<<>>, <<SHP_A, SHP_B>>, <<SHP_C>>}

Events ==
    [event_id : EventIds,
     topic : {TopicStrike},
     location : {LocSuez, LocNowhere},
     severity : {2, 10},
     timestamp_epoch : {None, Some(Epoch - 10)}]

(* The event and the shipment snapshot of a run; the pool of two is met at  *)
(* its own location                                                         *)
RunInputs ==
    {inp \in Events \X Pools : Len(inp[2]) < 2 \/ inp[1].location = LocSuez}

(* random.uniform(5.0, 25.0), sampled at its least value *)
EstimateLags == {5}

MaxDecisions == 2

(* Decisions a caller can hand to act *)
ActDecisions ==
    [shipment_id : {"SHP_A"},
     recommendation : {<<"CRITICAL", "REROUTE">>, <<"WARNING", "ALERT">>,
                       <<"ADVISORY", "MONITOR">>},
     risk : {60},
     confidence : {None, Some(69), Some(70)}]

ActInputs == UNION {[1..n -> ActDecisions] : n \in 0..MaxDecisions}

ActEvents == {e \in Events : e.location = LocSuez /\ e.severity = 10
                              /\ e.timestamp_epoch = None}

----------------------------------------------------------------------------
(* What earlier runs have left behind *)

EmptyDict == [x \in {} |-> None]

PriorEvent == [event_id |-> "EVT_1", topic |-> TopicStrike, location |-> LocSuez,
               severity |-> 10, timestamp_epoch |-> None]
PriorDecision == [shipment_id |-> "SHP_A",
                  recommendation |-> <<"CRITICAL", "REROUTE">>,
                  risk |-> 100, confidence |-> Some(85)]

(* The tracker after an earlier run detected EVT_1 and acted on it *)
PriorMetrics ==
    track_action(track_detection(EmptyDict, "EVT_1", None, Epoch - 2),
                 "EVT_1", 42, Epoch - 1)

(* The events table after that run wrote its record *)
PriorMemory ==
    store_event(EmptyDict,
                StoredEvent(PriorEvent, PriorDecision, Epoch - 1, "REROUTE", 42))

(* A fresh process, and a process whose earlier run dispatched and recorded *)
(* an action for EVT_1                                                      *)
Priors ==
    {[metrics |-> EmptyDict, memory |-> EmptyDict, dispatched |-> {}],
     [metrics |-> PriorMetrics, memory |-> PriorMemory, dispatched |-> {"EVT_1"}]}

----------------------------------------------------------------------------
(* The graph, src/src/agent_brain.py build_agent_graph *)

Stages == {"OBSERVE", "RETRIEVE", "ANALYZE", "DECIDE", "ACT"}

(* A conditional edge that never ends the run *)
check_affected_continue(affected) == "continue"

check_affected(affected) == IF affected = <<>> THEN "end" ELSE "continue"

(* A graph whose analyze node is wired to act *)
SuccessorSkipsDecide(node, affected) ==
    CASE node = "OBSERVE" ->
            IF check_affected(affected) = "end" THEN "END" ELSE "RETRIEVE"
      [] node = "RETRIEVE" -> "ANALYZE"
      [] node = "ANALYZE" -> "ACT"
      [] node = "DECIDE" -> "ACT"
      [] node = "ACT" -> "END"

(* The node that follows a node that has returned *)
Successor(node, affected) ==
    CASE node = "OBSERVE" ->
            IF check_affected(affected) = "end" THEN "END" ELSE "RETRIEVE"
      [] node = "RETRIEVE" -> "ANALYZE"
      [] node = "ANALYZE" -> "DECIDE"
      [] node = "DECIDE" -> "ACT"
      [] node = "ACT" -> "END"

NoEvent == [event_id |-> "", topic |-> <<>>, location |-> <<>>, severity |-> 0,
            timestamp_epoch |-> None]

Init ==
    /\ pc = "IDLE"
    /\ entry = "none"
    /\ raw_event = NoEvent
    /\ active_shipments = <<>>
    /\ affected_shipments = <<>>
    /\ analysis_logs = <<>>
    /\ decisions = <<>>
    /\ actions_taken = <<>>
    /\ idx = 1
    /\ \E prior \in Priors :
        /\ metricsEvents = prior.metrics
        /\ memoryEvents = prior.memory
        /\ dispatched = prior.dispatched
    /\ emitted = <<>>
    /\ executorCalls = <<>>
    /\ llmLog = <<>>
    /\ sinkFailed = FALSE
    /\ error = "none"
    /\ reasoning \in EngineConfigs
    /\ now = Epoch
    /\ writers = <<>>
    /\ dbLock = None
    /\ committed = <<>>
    /\ lastCall = None
    /\ snap = None
    /\ called = None
    /\ returned = None

(* on_news_received: agent_graph.ainvoke(initial_state) *)
StartRun ==
    /\ UNCHANGED sideVars
    /\ pc = "IDLE"
    /\ \E inp \in RunInputs :
        /\ raw_event' = inp[1]
        /\ active_shipments' = inp[2]
    /\ pc' = "OBSERVE"
    /\ entry' = "graph"
    /\ UNCHANGED <<affected_shipments, analysis_logs, decisions, actions_taken,
                   idx, metricsEvents, memoryEvents, emitted, executorCalls,
                   llmLog, dispatched, sinkFailed, error, reasoning, now>>

(* A caller hands a state with decisions to SentinelAgent.act *)
StartAct ==
    /\ UNCHANGED sideVars
    /\ pc = "IDLE"
    /\ \E e \in ActEvents, decs \in ActInputs :
        /\ raw_event' = e
        /\ decisions' = decs
    /\ pc' = "ACT"
    /\ entry' = "act"
    /\ UNCHANGED <<active_shipments, affected_shipments, analysis_logs,
                   actions_taken, idx, metricsEvents, memoryEvents, emitted,
                   executorCalls, llmLog, dispatched, sinkFailed, error,
                   reasoning, now>>

----------------------------------------------------------------------------
(* The stages, src/src/agent_brain.py SentinelAgent *)

(* await AgentTelemetry.emit(...): the notice is put on the queue and the   *)
(* delivery to the HTTP bridge is attempted                                 *)
Telemetry(notice, sink) ==
    /\ emitted' = Append(emitted, notice)
    /\ sinkFailed' = (sinkFailed \/ sink # "ok")

(* observe, and the conditional edge that follows it *)
Observe ==
    /\ UNCHANGED sideVars
    /\ pc = "OBSERVE"
    /\ \E lag \in EstimateLags, sink \in SinkOutcomes,
          t0 \in ClockReads(now),
          affected \in detect_affected_shipments(raw_event, active_shipments) :
        \E t \in ClockReads(t0) :
            LET occurred_at == IF raw_event.timestamp_epoch # None
                               THEN raw_event.timestamp_epoch
                               ELSE Some(t0 - lag)
                raised == emit(sink) = "raised"
            IN  /\ metricsEvents' = track_detection(metricsEvents,
                                        raw_event.event_id, occurred_at, t)
                /\ now' = t
                /\ Telemetry(Notice("OBSERVE", raw_event.event_id, "observed", None),
                             sink)
                /\ affected_shipments' = IF raised THEN affected_shipments
                                         ELSE affected
                /\ active_shipments' =
                      IF raised THEN active_shipments
                      ELSE shipments_after(active_shipments, affected)
                /\ pc' = IF raised THEN "ABORTED"
                         ELSE Successor("OBSERVE", affected)
                /\ error' = IF raised THEN "telemetry" ELSE error
    /\ UNCHANGED <<entry, raw_event, analysis_logs, decisions,
                   actions_taken, idx, memoryEvents, executorCalls, llmLog,
                   dispatched, reasoning>>

retrieve_context ==
    /\ UNCHANGED sideVars
    /\ pc = "RETRIEVE"
    /\ \E sink \in SinkOutcomes :
        LET raised == affected_shipments # <<>> /\ emit(sink) = "raised"
        IN  /\ IF affected_shipments # <<>>
               THEN Telemetry(Notice("RETRIEVE", raw_event.event_id, "context", None),
                              sink)
               ELSE UNCHANGED <<emitted, sinkFailed>>
            /\ pc' = IF raised THEN "ABORTED"
                     ELSE Successor("RETRIEVE", affected_shipments)
            /\ error' = IF raised THEN "telemetry" ELSE error
    /\ UNCHANGED <<entry, raw_event, active_shipments, affected_shipments,
                   analysis_logs, decisions, actions_taken, idx, metricsEvents,
                   memoryEvents, executorCalls, llmLog, dispatched, reasoning,
                   now>>

(* One iteration of analyze's loop *)
AnalyzeStep ==
    /\ UNCHANGED sideVars
    /\ pc = "ANALYZE"
    /\ idx <= Len(affected_shipments)
    /\ \E out \in AnalysisOutcomes, sink \in SinkOutcomes :
        LET shipment == affected_shipments[idx]
            raised == emit(sink) = "raised"
            impact == analyze_impact(reasoning, out)
        IN  /\ Telemetry(Notice("ANALYZE", raw_event.event_id, "thought",
                                Some(shipment.shipment_id)), sink)
            /\ IF raised
               THEN /\ pc' = "ABORTED"
                    /\ error' = "telemetry"
                    /\ UNCHANGED <<analysis_logs, llmLog, idx>>
               ELSE /\ analysis_logs' =
                          Append(analysis_logs,
                                 [shipment_id |-> shipment.shipment_id,
                                  impact |-> impact])
                    /\ llmLog' = Append(llmLog,
                                        invoke_with_fallback(reasoning, out) = None)
                    /\ idx' = idx + 1
                    /\ UNCHANGED <<pc, error>>
    /\ UNCHANGED <<entry, raw_event, active_shipments, affected_shipments,
                   decisions, actions_taken, metricsEvents, memoryEvents,
                   executorCalls, dispatched, reasoning, now>>

AnalyzeReturn ==
    /\ UNCHANGED sideVars
    /\ pc = "ANALYZE"
    /\ idx > Len(affected_shipments)
    /\ pc' = Successor("ANALYZE", affected_shipments)
    /\ idx' = 1
    /\ UNCHANGED <<entry, raw_event, active_shipments, affected_shipments,
                   analysis_logs, decisions, actions_taken, metricsEvents,
                   memoryEvents, emitted, executorCalls, llmLog, dispatched,
                   sinkFailed, error, reasoning, now>>

(* shipment.get('risk_score', 0) *)
RiskOf(shipment) ==
    IF "risk_score" \in DOMAIN shipment THEN shipment.risk_score ELSE 0

(* A confidence that is low when the risk is exceedingly high *)
ConfidenceLowAtHighRisk(risk) == IF risk < 90 THEN 95 ELSE 65

(* The simulated confidence with the threshold one higher *)
ConfidenceInclusive(risk) == IF risk <= 90 THEN 95 ELSE 85

(* decide's simulated confidence, in hundredths *)
Confidence(risk) == IF risk < 90 THEN 95 ELSE 85

(* The shipment decide's loop takes at its i-th iteration, read the other  *)
(* way round                                                                *)
ShipmentAtReversed(affected, i) == affected[Len(affected) + 1 - i]

(* The shipment enumerate() hands decide's loop at its i-th iteration *)
ShipmentAt(affected, i) == affected[i]

(* One iteration of decide's loop *)
DecideStep ==
    /\ UNCHANGED sideVars
    /\ pc = "DECIDE"
    /\ idx <= Len(affected_shipments)
    /\ idx <= Len(analysis_logs)
    /\ \E out \in RecommendOutcomes, sink \in SinkOutcomes :
        LET shipment == ShipmentAt(affected_shipments, idx)
            risk == RiskOf(shipment)
            confidence == Confidence(risk)
            recommendation == recommend_action(reasoning, out, risk)
            raised == emit(sink) = "raised"
        IN  /\ llmLog' = Append(llmLog, invoke_with_fallback(reasoning, out) = None)
            /\ Telemetry(Notice("DECIDE", raw_event.event_id, "decision",
                                Some(shipment.shipment_id)), sink)
            /\ IF raised
               THEN /\ pc' = "ABORTED"
                    /\ error' = "telemetry"
                    /\ UNCHANGED <<decisions, idx>>
               ELSE /\ decisions' =
                          Append(decisions,
                                 [shipment_id |-> shipment.shipment_id,
                                  recommendation |-> recommendation,
                                  risk |-> risk,
                                  confidence |-> Some(confidence)])
                    /\ idx' = idx + 1
                    /\ UNCHANGED <<pc, error>>
    /\ UNCHANGED <<entry, raw_event, active_shipments, affected_shipments,
                   analysis_logs, actions_taken, metricsEvents, memoryEvents,
                   executorCalls, dispatched, reasoning, now>>

DecideReturn ==
    /\ UNCHANGED sideVars
    /\ pc = "DECIDE"
    /\ idx > Len(affected_shipments)
    /\ pc' = Successor("DECIDE", affected_shipments)
    /\ idx' = 1
    /\ UNCHANGED <<entry, raw_event, active_shipments, affected_shipments,
                   analysis_logs, decisions, actions_taken, metricsEvents,
                   memoryEvents, emitted, executorCalls, llmLog, dispatched,
                   sinkFailed, error, reasoning, now>>

(* dec.get('confidence', 1.0), in hundredths *)
ConfidenceOf(dec) == IF dec.confidence = None THEN 100 ELSE dec.confidence[1]

(* A gate with its threshold one hundredth lower *)
GateBelow69(conf) == conf < 69

(* The safety check of act: conf < 0.7 *)
GateBlocks(conf) == conf < 70

(* The branch of act's loop body a decision takes *)
ActBranch(dec) ==
    IF GateBlocks(ConfidenceOf(dec)) THEN "blocked"
    ELSE IF IsSubstring(<<"CRITICAL">>, dec.recommendation) THEN "critical"
    ELSE IF IsSubstring(<<"WARNING">>, dec.recommendation) THEN "warning"
    ELSE "none"

(* What the write to the events table can do *)
StoreOutcomes == {"ok", "fail"}

(* An act that catches the exception of the write and goes on *)
StoreErrorSwallowed(db) == FALSE

(* act calls memory.store_event outside any try: its exception leaves act *)
StoreErrorLeavesAct(db) == db = "fail"

(* days_saved in tenths, action_taken, the executor and the notice of a     *)
(* dispatching branch                                                       *)
DaysSavedFlat(branch) == 5
DaysSaved(branch) == IF branch = "critical" THEN 42 ELSE 5
ActionTakenReroute(branch) == "REROUTE"
ActionTaken(branch) == IF branch = "critical" THEN "REROUTE" ELSE "ALERT"
ExecutorOf(branch) == IF branch = "critical" THEN "send_email_alert"
                      ELSE "trigger_slack_notification"
ExecutorResult(branch, backend) ==
    IF branch = "critical" THEN send_email_alert(backend)
    ELSE trigger_slack_notification(backend)
ActNotice(branch) == IF branch = "critical" THEN "AUTO-REROUTE" ELSE "ALERT SENT"

(* A gate that returns from act instead of continuing with the next decision *)
ActBlockedReturns(dec, sink) ==
    LET raised == emit(sink) = "raised"
    IN  /\ Telemetry(Notice("ACT", raw_event.event_id, "BLOCKED", None), sink)
        /\ pc' = IF raised THEN "ABORTED" ELSE pc
        /\ error' = IF raised THEN "telemetry" ELSE error
        /\ idx' = IF raised THEN idx ELSE Len(decisions) + 1
        /\ UNCHANGED <<actions_taken, metricsEvents, memoryEvents, executorCalls,
                       dispatched, now>>

(* A decision stopped by the gate: the block notice and nothing else *)
ActBlocked(dec, sink) ==
    LET raised == emit(sink) = "raised"
    IN  /\ Telemetry(Notice("ACT", raw_event.event_id, "BLOCKED", None), sink)
        /\ pc' = IF raised THEN "ABORTED" ELSE pc
        /\ error' = IF raised THEN "telemetry" ELSE error
        /\ idx' = IF raised THEN idx ELSE idx + 1
        /\ UNCHANGED <<actions_taken, metricsEvents, memoryEvents, executorCalls,
                       dispatched, now>>

(* A CRITICAL or WARNING decision: executor, metrics, audit record, notice *)
ActDispatch(dec, branch, backend, db, sink, t1, t2) ==
    LET id == raw_event.event_id
        res == ExecutorResult(branch, backend)
        raised == emit(sink) = "raised"
    IN  /\ executorCalls' = Append(executorCalls,
                                   [executor |-> ExecutorOf(branch),
                                    shipment_id |-> dec.shipment_id,
                                    result |-> res,
                                    decision |-> idx,
                                    stored |-> IF backend = "hang" THEN "never"
                                               ELSE db])
        /\ dispatched' = IF backend = "hang" THEN dispatched
                          ELSE dispatched \cup {id}
        /\ IF backend = "hang"
           THEN /\ pc' = "STALLED"
                /\ UNCHANGED <<actions_taken, metricsEvents, memoryEvents, emitted,
                               sinkFailed, error, idx, now>>
           ELSE /\ actions_taken' = Append(actions_taken, res)
                /\ metricsEvents' = track_action(metricsEvents, id,
                                                 DaysSaved(branch), t1)
                /\ now' = t2
                /\ IF StoreErrorLeavesAct(db)
                   THEN /\ pc' = "ABORTED"
                        /\ error' = "storage"
                        /\ UNCHANGED <<memoryEvents, emitted, sinkFailed, idx>>
                   ELSE /\ memoryEvents' =
                              IF db = "fail" THEN memoryEvents
                              ELSE store_event(memoryEvents,
                                       StoredEvent(raw_event, dec, t2,
                                                   ActionTaken(branch),
                                                   DaysSaved(branch)))
                        /\ Telemetry(Notice("ACT", id, ActNotice(branch),
                                            Some(dec.shipment_id)), sink)
                        /\ pc' = IF raised THEN "ABORTED" ELSE pc
                        /\ error' = IF raised THEN "telemetry" ELSE error
                        /\ idx' = IF raised THEN idx ELSE idx + 1

(* One iteration of act's loop *)
ActStep ==
    /\ UNCHANGED sideVars
    /\ pc = "ACT"
    /\ idx <= Len(decisions)
    /\ \E backend \in BackendOutcomes, db \in StoreOutcomes,
          sink \in SinkOutcomes, t1 \in ClockReads(now) :
        \E t2 \in ClockReads(t1) :
            LET dec == decisions[idx]
                branch == ActBranch(dec)
            IN  CASE branch = "blocked" -> ActBlocked(dec, sink)
                  [] branch \in {"critical", "warning"} ->
                        ActDispatch(dec, branch, backend, db, sink, t1, t2)
                  [] OTHER ->
                        /\ idx' = idx + 1
                        /\ UNCHANGED <<pc, error, actions_taken, metricsEvents,
                                       memoryEvents, emitted, executorCalls,
                                       dispatched, sinkFailed, now>>
    /\ UNCHANGED <<entry, raw_event, active_shipments, affected_shipments,
                   analysis_logs, decisions, llmLog, reasoning>>

ActReturn ==
    /\ UNCHANGED sideVars
    /\ pc = "ACT"
    /\ idx > Len(decisions)
    /\ pc' = Successor("ACT", affected_shipments)
    /\ UNCHANGED <<entry, raw_event, active_shipments, affected_shipments,
                   analysis_logs, decisions, actions_taken, idx, metricsEvents,
                   memoryEvents, emitted, executorCalls, llmLog, dispatched,
                   sinkFailed, error, reasoning, now>>

Next ==
    \/ StartRun
    \/ StartAct
    \/ Observe
    \/ retrieve_context
    \/ AnalyzeStep
    \/ AnalyzeReturn
    \/ DecideStep
    \/ DecideReturn
    \/ ActStep
    \/ ActReturn

Spec == Init /\ [][Next]_vars

(* news_worker drives each run with loop.run_until_complete: a run that can *)
(* take a step takes it                                                     *)
FairSpec == Spec /\ WF_vars(Next)

----------------------------------------------------------------------------
(* Processes appending to the Audit Store, src/src/memory_store.py *)

(* Processes that share the database file *)
NumWriters == 2

(* Rows a process has to write *)
MaxAppends == 2

(* Rows act can hand to store_event *)
StoreRows ==
    {StoredEvent(e, PriorDecision, Epoch, ActionTaken(branch), DaysSaved(branch)) :
        e \in ActEvents, branch \in {"critical", "warning"}}

(* The events table before the appends: the row of EVT_1 and a row that no  *)
(* process writes again                                                     *)
StoreInitial ==
    store_event(PriorMemory,
                StoredEvent([PriorEvent EXCEPT !.event_id = "EVT_0"],
                            PriorDecision, Epoch - 2, "ALERT", 5))

WriterQueues == UNION {[1..n -> StoreRows] : n \in 1..MaxAppends}

StoreInit ==
    /\ pc = "IDLE"
    /\ entry = "none"
    /\ raw_event = NoEvent
    /\ active_shipments = <<>>
    /\ affected_shipments = <<>>
    /\ analysis_logs = <<>>
    /\ decisions = <<>>
    /\ actions_taken = <<>>
    /\ idx = 1
    /\ metricsEvents = EmptyDict
    /\ memoryEvents = StoreInitial
    /\ dispatched = {}
    /\ emitted = <<>>
    /\ executorCalls = <<>>
    /\ llmLog = <<>>
    /\ sinkFailed = FALSE
    /\ error = "none"
    /\ reasoning \in {r \in EngineConfigs : ~r.primary}
    /\ now = Epoch
    /\ writers \in [1..NumWriters -> [at : {"idle"}, todo : WriterQueues]]
    /\ dbLock = None
    /\ committed = <<>>
    /\ lastCall = None
    /\ snap = None
    /\ called = None
    /\ returned = None

(* conn = sqlite3.connect(self.db_path) *)
StoreConnect(w) ==
    /\ writers[w].at = "idle"
    /\ writers[w].todo # <<>>
    /\ writers' = [writers EXCEPT ![w].at = "connected"]
    /\ UNCHANGED <<runVars, metricsEvents, memoryEvents, now, dbLock, committed,
                   trackerVars, callVars>>

(* cursor.execute(INSERT OR REPLACE ...): the statement opens a transaction *)
(* and takes the write lock; while another process holds the lock the call  *)
(* waits, and raises "database is locked" when its busy timeout runs out    *)
StoreExecute(w) ==
    /\ writers[w].at = "connected"
    /\ IF dbLock = None
       THEN /\ dbLock' = Some(w)
            /\ writers' = [writers EXCEPT ![w].at = "executed"]
       ELSE /\ writers' = [writers EXCEPT ![w].at = "raised"]
            /\ UNCHANGED dbLock
    /\ UNCHANGED <<runVars, metricsEvents, memoryEvents, now, committed,
                   trackerVars, callVars>>

(* conn.commit(); conn.close(): the row becomes visible and the lock is     *)
(* released                                                                 *)
StoreCommit(w) ==
    /\ writers[w].at = "executed"
    /\ dbLock = Some(w)
    /\ memoryEvents' = store_event(memoryEvents, Head(writers[w].todo))
    /\ committed' = Append(committed, Head(writers[w].todo))
    /\ dbLock' = None
    /\ writers' = [writers EXCEPT ![w].at = "idle", ![w].todo = Tail(@)]
    /\ UNCHANGED <<runVars, metricsEvents, now, trackerVars, callVars>>

StoreNext ==
    \/ \E w \in DOMAIN writers : StoreConnect(w)
    \/ \E w \in DOMAIN writers : StoreExecute(w)
    \/ \E w \in DOMAIN writers : StoreCommit(w)

StoreSpec == StoreInit /\ [][StoreNext]_vars

----------------------------------------------------------------------------
(* Callers of the Metrics Tracker, src/src/metrics.py. Runs are coroutines  *)
(* of one event loop and the tracker's methods do not await, so the calls   *)
(* of runs that are in flight together interleave as whole calls.           *)

(* occurred_at as callers pass it: absent, zero, in the past, in the future *)
OccurredInputs == {None, Some(0), Some(Epoch - 10), Some(Epoch + 5)}

(* days_saved in tenths: 4.2 and 0.5 as act passes them, and 2.0, the       *)
(* threshold of events_prevented                                            *)
DaysInputs == {42, 5, 20}

Call(op, event_id, occurred_at, days_saved) ==
    Some([op |-> op, event_id |-> event_id, occurred_at |-> occurred_at,
          days_saved |-> days_saved])

TrackerInit ==
    /\ pc = "IDLE"
    /\ entry = "none"
    /\ raw_event = NoEvent
    /\ active_shipments = <<>>
    /\ affected_shipments = <<>>
    /\ analysis_logs = <<>>
    /\ decisions = <<>>
    /\ actions_taken = <<>>
    /\ idx = 1
    /\ metricsEvents = EmptyDict
    /\ memoryEvents = EmptyDict
    /\ dispatched = {}
    /\ emitted = <<>>
    /\ executorCalls = <<>>
    /\ llmLog = <<>>
    /\ sinkFailed = FALSE
    /\ error = "none"
    /\ reasoning \in {r \in EngineConfigs : ~r.primary}
    /\ now = Epoch
    /\ writers = <<>>
    /\ dbLock = None
    /\ committed = <<>>
    /\ lastCall = None
    /\ snap = None
    /\ called = None
    /\ returned = None

(* metrics.track_detection(event_id, occurred_at) *)
TrackDetection ==
    /\ \E id \in EventIds, occurred_at \in OccurredInputs, t \in ClockReads(now) :
        /\ metricsEvents' = track_detection(metricsEvents, id, occurred_at, t)
        /\ now' = t
        /\ lastCall' = Call("track_detection", id, occurred_at, 0)
    /\ UNCHANGED <<runVars, memoryEvents, storeVars, snap, callVars>>

(* metrics.track_action(event_id, days_saved) *)
TrackAction ==
    /\ \E id \in EventIds, days_saved \in DaysInputs, t \in ClockReads(now) :
        /\ metricsEvents' = track_action(metricsEvents, id, days_saved, t)
        /\ now' = t
        /\ lastCall' = Call("track_action", id, None, days_saved)
    /\ UNCHANGED <<runVars, memoryEvents, storeVars, snap, callVars>>

(* metrics.get_metrics_snapshot() *)
Snapshot ==
    /\ snap' = Some(get_metrics_snapshot(metricsEvents))
    /\ lastCall' = Call("get_metrics_snapshot", "", None, 0)
    /\ UNCHANGED <<runVars, metricsEvents, memoryEvents, now, storeVars, callVars>>

TrackerNext ==
    \/ TrackDetection
    \/ TrackAction
    \/ Snapshot

TrackerSpec == TrackerInit /\ [][TrackerNext]_vars

----------------------------------------------------------------------------
(* Properties of the pipeline *)

(* The tag of a decision: the word its recommendation starts with *)
Tag(dec) == IF dec.recommendation = <<>> THEN "" ELSE Head(dec.recommendation)

(* act is about to handle decisions[idx] *)
ActHandles == pc = "ACT" /\ idx <= Len(decisions)

(* The decisions act has finished with so far *)
Handled == IF pc = "END" THEN DOMAIN decisions
           ELSE IF pc \in {"ACT", "STALLED", "ABORTED"} THEN 1..(idx - 1)
           ELSE {}

BlockNotices ==
    {k \in DOMAIN emitted :
        emitted[k].agent_state = "ACT" /\ emitted[k].result = "BLOCKED"}

CallsOf(k) == {c \in DOMAIN executorCalls : executorCalls[c].decision = k}

(* C1: a decision whose confidence is below 0.7 causes no executor call, no *)
(* audit record and no metrics action: the step of act that handles it      *)
(* leaves the executors, the Audit Store and the Metrics Tracker untouched  *)
C1_ConfidenceGate ==
    [][(ActHandles /\ ConfidenceOf(decisions[idx]) < 70)
         => /\ executorCalls' = executorCalls
            /\ dispatched' = dispatched
            /\ actions_taken' = actions_taken
            /\ memoryEvents' = memoryEvents
            /\ metricsEvents' = metricsEvents]_vars

(* act has returned after handling a CRITICAL decision of confidence 0.69 *)
C1_Witness ==
    /\ pc = "END"
    /\ entry = "act"
    /\ Len(decisions) = 1
    /\ decisions[1].confidence = Some(69)
    /\ Tag(decisions[1]) = "CRITICAL"
    /\ executorCalls = <<>>
    /\ Cardinality(BlockNotices) = 1

(* C2 as stated: the Audit Store holds a record for an event id exactly     *)
(* when act dispatched an action for it                                     *)
C2_RecordIffDispatched ==
    \A e \in EventIds : (e \in DOMAIN memoryEvents) <=> (e \in dispatched)

(* C2: the Audit Store holds a record for an event id only if act           *)
(* dispatched an action for it, and an event id with a dispatched action is *)
(* without a record only when the write that followed the dispatch failed   *)
C2_RecordOnlyIfDispatched ==
    /\ \A e \in DOMAIN memoryEvents : e \in dispatched
    /\ \A e \in dispatched :
          e \notin DOMAIN memoryEvents
            => /\ e = raw_event.event_id
               /\ \E c \in DOMAIN executorCalls :
                      executorCalls[c].stored = "fail"

(* A graph run has dispatched for an event id that had no record, and       *)
(* returned with the record written                                         *)
C2_Witness ==
    /\ pc = "END"
    /\ entry = "graph"
    /\ raw_event.event_id = "EVT_2"
    /\ executorCalls # <<>>
    /\ "EVT_2" \in DOMAIN memoryEvents
    /\ "EVT_2" \in dispatched

(* The edges of the graph *)
GraphEdges ==
    {<<"IDLE", "OBSERVE">>, <<"OBSERVE", "RETRIEVE">>, <<"OBSERVE", "END">>,
     <<"RETRIEVE", "ANALYZE">>, <<"ANALYZE", "DECIDE">>, <<"DECIDE", "ACT">>,
     <<"ACT", "END">>}

(* C3: a run of the graph enters its stages in the order OBSERVE, RETRIEVE, *)
(* ANALYZE, DECIDE, ACT, each from the stage before it, and reaches END     *)
(* from ACT or, as the only branch, from OBSERVE                            *)
C3_StageOrder ==
    [][(entry' = "graph" /\ pc' # pc /\ pc' \in Stages \cup {"END"})
         => <<pc, pc'>> \in GraphEdges]_vars

(* A run of the graph has gone through all five stages for two shipments *)
C3_Witness ==
    /\ pc = "END"
    /\ entry = "graph"
    /\ Len(decisions) = 2
    /\ Len(analysis_logs) = 2
    /\ Len(emitted) >= 6

(* C4: when OBSERVE finds no affected shipment the run ends there: no       *)
(* reasoning call, no executor call, no audit record, no metrics action and *)
(* no notice of a later stage, and the Metrics Tracker holds the detection  *)
C4_NoMatchEndsAtObserve ==
    (entry = "graph" /\ pc # "OBSERVE" /\ affected_shipments = <<>>)
      => /\ pc = "END"
         /\ llmLog = <<>>
         /\ executorCalls = <<>>
         /\ actions_taken = <<>>
         /\ analysis_logs = <<>>
         /\ decisions = <<>>
         /\ emitted = <<Notice("OBSERVE", raw_event.event_id, "observed", None)>>
         /\ \E prior \in Priors : /\ memoryEvents = prior.memory
                                  /\ dispatched = prior.dispatched
         /\ raw_event.event_id \in DOMAIN metricsEvents
         /\ metricsEvents[raw_event.event_id].detected_at = now
         /\ metricsEvents[raw_event.event_id].action_at = None

(* A low-severity event far from every shipment of a non-empty pool *)
C4_Witness ==
    /\ pc = "END"
    /\ entry = "graph"
    /\ active_shipments # <<>>
    /\ raw_event.severity = 2
    /\ affected_shipments = <<>>
    /\ raw_event.event_id \in DOMAIN metricsEvents

(* decide has returned in a run of the graph *)
DecideDone ==
    /\ entry = "graph"
    /\ affected_shipments # <<>>
    /\ pc \in {"ACT", "END", "STALLED", "ABORTED"}

ThresholdTag(risk) ==
    IF risk > 80 THEN "CRITICAL" ELSE IF risk > 50 THEN "WARNING" ELSE "ADVISORY"

(* C5: a reasoning call that fails for one shipment does not end the run;   *)
(* that shipment gets the mock analysis or the threshold recommendation for *)
(* its risk, every shipment has its own analysis and decision in order, and *)
(* a run that returns has called an executor for every tagged decision      *)
C5_PerShipmentIsolation ==
    /\ (entry = "graph" /\ pc = "ABORTED") => error = "storage"
    /\ DecideDone =>
         LET n == Len(affected_shipments)
         IN  /\ Len(analysis_logs) = n
             /\ Len(decisions) = n
             /\ Len(llmLog) = 2 * n
             /\ \A i \in 1..n :
                  LET shp == affected_shipments[i]
                      dec == decisions[i]
                  IN  /\ analysis_logs[i].shipment_id = shp.shipment_id
                      /\ dec.shipment_id = shp.shipment_id
                      /\ dec.risk = shp.risk_score
                      /\ analysis_logs[i].impact =
                           IF llmLog[i] THEN <<"Mock", "Analysis">>
                           ELSE <<"Impact">>
                      /\ llmLog[n + i] => Tag(dec) = ThresholdTag(shp.risk_score)
                      /\ ~llmLog[n + i] =>
                            dec.recommendation \in {Strip(r) : r \in Responses}
                      /\ (pc = "END" /\ Tag(dec) \in {"CRITICAL", "WARNING"})
                            => CallsOf(i) # {}

(* Every client failed for the first of two shipments and one answered for  *)
(* the second; both were acted on                                           *)
C5_Witness ==
    /\ pc = "END"
    /\ DecideDone
    /\ Len(affected_shipments) = 2
    /\ reasoning.primary
    /\ llmLog[3]
    /\ ~llmLog[4]
    /\ CallsOf(1) # {}
    /\ CallsOf(2) # {}

(* C6 as stated: a decision that passes the gate is dispatched by its tag:  *)
(* CRITICAL to send_email_alert with 4.2 days and REROUTE, WARNING to       *)
(* trigger_slack_notification with 0.5 days and ALERT                       *)
C6_DispatchByTag ==
    [][(ActHandles /\ ConfidenceOf(decisions[idx]) >= 70
          /\ Tag(decisions[idx]) \in {"CRITICAL", "WARNING"})
         => LET critical == Tag(decisions[idx]) = "CRITICAL"
                id == raw_event.event_id
                last == executorCalls'[Len(executorCalls')]
            IN  /\ Len(executorCalls') = Len(executorCalls) + 1
                /\ last.executor = IF critical THEN "send_email_alert"
                                   ELSE "trigger_slack_notification"
                /\ (last.stored # "never" /\ id \in DOMAIN metricsEvents')
                     => metricsEvents'[id].days_saved =
                            IF critical THEN 42 ELSE 5
                /\ last.stored = "ok"
                     => /\ id \in DOMAIN memoryEvents'
                        /\ memoryEvents'[id].action_taken =
                              IF critical THEN "REROUTE" ELSE "ALERT"
                        /\ memoryEvents'[id].days_saved =
                              IF critical THEN 42 ELSE 5]_vars

(* C7 as stated: a decision whose tag is neither CRITICAL nor WARNING       *)
(* causes no executor call, no audit record and no metrics action, whatever *)
(* else its recommendation says                                             *)
C7_NoDispatchWithoutTag ==
    [][(ActHandles /\ Tag(decisions[idx]) \notin {"CRITICAL", "WARNING"})
         => /\ executorCalls' = executorCalls
            /\ dispatched' = dispatched
            /\ memoryEvents' = memoryEvents
            /\ metricsEvents' = metricsEvents]_vars

C9_StoreFailureSurfaces ==
    \A c \in DOMAIN executorCalls :
        executorCalls[c].stored = "fail"
          => /\ pc = "ABORTED"
             /\ error = "storage"
             /\ c = Len(executorCalls)
             /\ raw_event.event_id \in dispatched
             /\ raw_event.event_id \in DOMAIN metricsEvents
                  => /\ metricsEvents[raw_event.event_id].action_at # None
                     /\ metricsEvents[raw_event.event_id].days_saved =
                          IF executorCalls[c].executor = "send_email_alert"
                          THEN 42 ELSE 5

(* A run of the graph sent its email, recorded the metrics action and then  *)
(* lost the write of the record of an event that had none                   *)
C9_Witness ==
    /\ pc = "ABORTED"
    /\ error = "storage"
    /\ entry = "graph"
    /\ raw_event.event_id = "EVT_2"
    /\ Len(executorCalls) = 1
    /\ executorCalls[1].stored = "fail"
    /\ executorCalls[1].result = "Email Sent (Real)"
    /\ metricsEvents["EVT_2"].days_saved = 42
    /\ "EVT_2" \notin DOMAIN memoryEvents

(* C10: a telemetry delivery that fails never ends or stalls a stage: no    *)
(* run is left by an exception of emit, a stalled run is waiting for an     *)
(* executor, and a run of the graph that returns has queued the notice of   *)
(* every step whether or not a delivery failed                              *)
C10_TelemetryBestEffort ==
    /\ error # "telemetry"
    /\ pc = "STALLED" =>
         /\ executorCalls # <<>>
         /\ executorCalls[Len(executorCalls)].stored = "never"
    /\ (pc = "END" /\ entry = "graph" /\ affected_shipments # <<>>) =>
         /\ Len(decisions) = Len(affected_shipments)
         /\ Len(emitted) = 2 + 2 * Len(affected_shipments) + Len(executorCalls)

(* A run of the graph returned with its actions taken although a delivery   *)
(* of telemetry failed                                                      *)
C10_Witness ==
    /\ pc = "END"
    /\ entry = "graph"
    /\ sinkFailed
    /\ executorCalls # <<>>
    /\ Len(emitted) = 2 + 2 * Len(affected_shipments) + Len(executorCalls)

(* C11 as stated, for the collaborators it names: every run that has        *)
(* started eventually reaches END, unless its Audit Store write fails       *)
C11_RunReachesEnd ==
    (pc # "IDLE") ~> (pc = "END" \/ error = "storage")

(* Every process has finished its appends, or given up on one *)
AppendsCompleted ==
    /\ writers # <<>>
    /\ \A w \in DOMAIN writers :
          \/ writers[w].at = "idle" /\ writers[w].todo = <<>>
          \/ writers[w].at = "raised"

CommittedIds == {committed[k].event_id : k \in DOMAIN committed}

(* The last committed row of an event id *)
LastCommitted(id) ==
    LET ks == {k \in DOMAIN committed : committed[k].event_id = id}
    IN  committed[CHOOSE k \in ks : \A j \in ks : j <= k]

----------------------------------------------------------------------------
(* The Risk Matcher on its own: detect_affected_shipments applied to one    *)
(* event and one shipment snapshot, src/src/perception.py:45-93.            *)

(* severity is random.randint(1, 10) at ingestion *)
MaxSeverity == 10

(* The longest shipment snapshot handed to the matcher *)
MaxPool == 3

SHP_D == [shipment_id |-> "SHP_D", route_id |-> <<"R", "3">>,
          current_location |-> <<"S">>,
          cargo_type |-> <<"Perishable", " ", "Food">>]

MatcherShipments == {SHP_A, SHP_B, SHP_C, SHP_D}

(* Snapshots of distinct shipments, in any order *)
MatcherPools ==
    {p \in UNION {[1..n -> MatcherShipments] : n \in 0..MaxPool} :
        \A a, b \in DOMAIN p : a # b => p[a] # p[b]}

(* event.get('location', ''): an event without a location, or with an     *)
(* empty one, reads as the empty string; and a location of spaces only      *)
LocMissing == <<>>
LocBlank == <<" ", " ">>

MatcherEvents ==
    [event_id : {"EVT_1"},
     topic : {TopicStrike, <<"Canal", " ", "Blockage">>, <<"Tariff">>,
              <<"Weather">>},
     location : {LocSuez, <<" ", "S", "z", " ">>, LocNowhere, LocMissing,
                 LocBlank},
     severity : 1..MaxSeverity,
     timestamp_epoch : {None}]

MatcherInit ==
    /\ pc = "MATCH"
    /\ entry = "none"
    /\ raw_event \in MatcherEvents
    /\ active_shipments \in MatcherPools
    /\ affected_shipments = <<>>
    /\ analysis_logs = <<>>
    /\ decisions = <<>>
    /\ actions_taken = <<>>
    /\ idx = 1
    /\ metricsEvents = EmptyDict
    /\ memoryEvents = EmptyDict
    /\ dispatched = {}
    /\ emitted = <<>>
    /\ executorCalls = <<>>
    /\ llmLog = <<>>
    /\ sinkFailed = FALSE
    /\ error = "none"
    /\ reasoning \in {r \in EngineConfigs : ~r.primary}
    /\ now = Epoch
    /\ writers = <<>>
    /\ dbLock = None
    /\ committed = <<>>
    /\ lastCall = None
    /\ snap = None
    /\ called = None
    /\ returned = None

(* affected = detect_affected_shipments(event, active_shipments) *)
Detect ==
    /\ pc = "MATCH"
    /\ affected_shipments' \in
           detect_affected_shipments(raw_event, active_shipments)
    /\ active_shipments' = shipments_after(active_shipments, affected_shipments')
    /\ pc' = "MATCHED"
    /\ UNCHANGED <<entry, raw_event, analysis_logs, decisions,
                   actions_taken, idx, emitted, executorCalls, llmLog,
                   dispatched, sinkFailed, error, reasoning, metricsEvents,
                   memoryEvents, now, sideVars>>

MatcherNext == Detect

MatcherSpec == MatcherInit /\ [][MatcherNext]_vars

----------------------------------------------------------------------------
(* Properties of the Risk Matcher, stated without the matcher's operators. *)

(* needle occurs in hay at some position *)
Contains(hay, needle) ==
    \E i \in 1..(Len(hay) + 1) :
        \A j \in 1..Len(needle) :
            /\ i + j - 1 <= Len(hay)
            /\ hay[i + j - 1] = needle[j]

Norm(text) == Strip(Lower(text))

(* The direct-match condition on one shipment of the snapshot *)
Matches(shp) ==
    \/ Contains(Norm(shp.current_location), Norm(raw_event.location))
    \/ Contains(Norm(raw_event.location), Norm(shp.current_location))
    \/ Contains(Norm(shp.route_id), Norm(raw_event.location))

IsDirect(ctx) == ctx.inference_note = None
IsInferred(ctx) == ctx.inference_note # None

IdsOf(seq) == [k \in DOMAIN seq |-> seq[k].shipment_id]

(* The shipments of the snapshot that match directly, in input order *)
ExpectedDirect == SelectSeq(active_shipments, Matches)

Matched == pc = "MATCHED"

(* C14: every context the Risk Matcher returns, direct or inferred, has a   *)
(* risk score between 0 and 100, for every severity, snapshot and random    *)
(* outcome                                                                  *)
C14_RiskWithinBounds ==
    Matched => \A k \in DOMAIN affected_shipments :
                   /\ affected_shipments[k].risk_score >= 0
                   /\ affected_shipments[k].risk_score <= 100

(* A direct match whose uncapped score is above 100, next to one below it *)
C14_Witness ==
    /\ Matched
    /\ raw_event.severity = MaxSeverity
    /\ \E k \in DOMAIN affected_shipments :
          /\ IsDirect(affected_shipments[k])
          /\ affected_shipments[k].shipment_id = "SHP_A"
          /\ affected_shipments[k].risk_score = 100
    /\ \E k \in DOMAIN active_shipments : active_shipments[k] = SHP_C

(* C15: an event of severity below 5 with no direct match yields an empty   *)
(* affected list, whatever the snapshot                                     *)
C15_NoInferenceBelowFloor ==
    (Matched /\ raw_event.severity < 5 /\ ExpectedDirect = <<>>)
        => affected_shipments = <<>>

(* Severity 4, three shipments, none matching: nothing is reported *)
C15_Witness ==
    /\ Matched
    /\ raw_event.severity = 4
    /\ Len(active_shipments) = 3
    /\ ExpectedDirect = <<>>
    /\ affected_shipments = <<>>

(* C16: the contexts reported as direct matches are exactly the shipments   *)
(* whose normalized current location contains, or is contained in, the      *)
(* normalized event location, or whose normalized route identifier contains *)
(* it, in input order                                                       *)
C16_DirectMatchExact ==
    Matched => /\ IdsOf(SelectSeq(affected_shipments, IsDirect))
                    = IdsOf(ExpectedDirect)
               /\ ExpectedDirect # <<>> =>
                      \A k \in DOMAIN affected_shipments :
                          IsDirect(affected_shipments[k])

(* One shipment matched by its location after trimming, one by its route,   *)
(* one by being contained in the event location, and one not matched        *)
C16_Witness ==
    /\ Matched
    /\ raw_event.location = <<" ", "S", "z", " ">>
    /\ IdsOf(active_shipments) = <<"SHP_B", "SHP_C", "SHP_D">>
    /\ IdsOf(affected_shipments) = <<"SHP_B", "SHP_D">>

(* Cargo that indicates medical or perishable goods *)
SensitiveCargo(cargo_type) ==
    \/ Contains(cargo_type, <<"Medical">>)
    \/ Contains(cargo_type, <<"Perishable">>)

(* C17: each direct match has risk_score = min(100, severity * 10 * m) with *)
(* m = 1.5 for medical or perishable cargo and 1.0 for any other or absent  *)
(* cargo type                                                               *)
C17_DirectRiskByCargo ==
    Matched => \A k \in DOMAIN affected_shipments :
                   IsDirect(affected_shipments[k])
                   => 10 * affected_shipments[k].risk_score =
                        Min(1000, raw_event.severity * 10 *
                                  (IF SensitiveCargo(affected_shipments[k].cargo_type)
                                   THEN 15 ELSE 10))

(* Base risk of a topic, by keyword *)
TopicBase ==
    IF Contains(Lower(raw_event.topic), <<"strike">>)
       \/ Contains(Lower(raw_event.topic), <<"blockage">>)
    THEN 75
    ELSE IF Contains(Lower(raw_event.topic), <<"tariff">>) THEN 55 ELSE 45

Clamp(x) == IF x < 0 THEN 0 ELSE IF x > 100 THEN 100 ELSE x

(* C18: with no direct match, severity >= 5 and a non-empty snapshot, the   *)
(* matcher returns min(2, size) distinct shipments of the snapshot, each    *)
(* flagged as inferred, each with risk = clamp(topic base + p) for some p   *)
(* in -20..20                                                               *)
C18_InferenceFallback ==
    (Matched /\ ExpectedDirect = <<>> /\ raw_event.severity >= 5
        /\ active_shipments # <<>>)
    => /\ Len(affected_shipments) = Min(2, Len(active_shipments))
       /\ \A a, b \in DOMAIN affected_shipments :
             a # b => affected_shipments[a].shipment_id
                        # affected_shipments[b].shipment_id
       /\ \A k \in DOMAIN affected_shipments :
             LET ctx == affected_shipments[k]
             IN  /\ IsInferred(ctx)
                 /\ \E j \in DOMAIN active_shipments :
                       /\ active_shipments[j].shipment_id = ctx.shipment_id
                       /\ active_shipments[j].route_id = ctx.route_id
                       /\ active_shipments[j].current_location = ctx.current_location
                       /\ active_shipments[j].cargo_type = ctx.cargo_type
                 /\ ctx.trigger_event_id = raw_event.event_id
                 /\ \E p \in -20..20 : ctx.risk_score = Clamp(TopicBase + p)

(* A strike of severity 5 far from three shipments: two of them are         *)
(* inferred, one at the top and one at the bottom of the perturbation       *)
C18_Witness ==
    /\ Matched
    /\ raw_event.severity = 5
    /\ raw_event.topic = TopicStrike
    /\ ExpectedDirect = <<>>
    /\ Len(active_shipments) = 3
    /\ Len(affected_shipments) = 2
    /\ IsInferred(affected_shipments[1])
    /\ affected_shipments[1].risk_score = 95
    /\ affected_shipments[2].risk_score = 65

(* The events of a tracker state with and without an action *)
Acted(events) == {id \in DOMAIN events : events[id].action_at # None}
Pending(events) == {id \in DOMAIN events : events[id].action_at = None}

(* C13: a snapshot taken between the tracker calls of runs in flight        *)
(* returns, and its counts are those of the tracker state it was called on: *)
(* events_seen, actions_taken and predicted_delays count that state's       *)
(* events, acted events and events without action, so that events_seen =    *)
(* actions_taken + predicted_delays, and the call changes nothing           *)
C13_SnapshotConsistent ==
    [][(lastCall' = Call("get_metrics_snapshot", "", None, 0))
         => /\ metricsEvents' = metricsEvents
            /\ now' = now
            /\ snap' # None
            /\ LET v == snap'[1]
               IN  /\ v.events_seen = Cardinality(DOMAIN metricsEvents)
                   /\ v.actions_taken = Cardinality(Acted(metricsEvents))
                   /\ v.predicted_delays = Cardinality(Pending(metricsEvents))
                   /\ v.events_seen = v.actions_taken + v.predicted_delays
                   /\ v.estimated_days_saved =
                        SumOf(Acted(metricsEvents),
                              [id \in Acted(metricsEvents) |->
                                  metricsEvents[id].days_saved])
                   /\ (v.mttd_seconds = None) <=> (metricsEvents = EmptyDict)
                   /\ (v.mtta_seconds = None) <=> (Acted(metricsEvents) = {})]_vars

(* A snapshot saw one acted and one pending event, and a run went on to     *)
(* record the action of the pending one                                     *)
C13_Witness ==
    /\ snap # None
    /\ snap[1].events_seen = 2
    /\ snap[1].actions_taken = 1
    /\ snap[1].predicted_delays = 1
    /\ lastCall # None
    /\ lastCall[1].op = "track_action"
    /\ Pending(metricsEvents) = {}

(* The events whose detection delta the MTTD mean keeps *)
Delta(events) == [id \in DOMAIN events |->
                     events[id].detected_at - events[id].occurred_at]
KeptDeltas(events) == {id \in DOMAIN events : Delta(events)[id] >= 0}

(* The MTTD of a tracker state, in tenths of a second *)
MTTD(events) ==
    IF events = EmptyDict THEN None
    ELSE IF KeptDeltas(events) = {} THEN Some(0)
    ELSE Some(RoundTenths(SumOf(KeptDeltas(events), Delta(events)),
                          Cardinality(KeptDeltas(events))))

(* A track_detection call replaces the event of its id and no other *)
OneEventPerId(id) ==
    /\ DOMAIN metricsEvents' = DOMAIN metricsEvents \cup {id}
    /\ \A x \in DOMAIN metricsEvents \ {id} : metricsEvents'[x] = metricsEvents[x]
    /\ metricsEvents'[id].event_id = id
    /\ metricsEvents'[id].detected_at = now'
    /\ get_metrics_snapshot(metricsEvents').mttd_seconds = MTTD(metricsEvents')

C20_TrackActionFrame ==
    [][\A id \in EventIds, d \in DaysInputs :
         (lastCall' = Call("track_action", id, None, d))
         => IF id \notin DOMAIN metricsEvents
            THEN /\ metricsEvents' = metricsEvents
                 /\ get_metrics_snapshot(metricsEvents')
                      = get_metrics_snapshot(metricsEvents)
            ELSE /\ DOMAIN metricsEvents' = DOMAIN metricsEvents
                 /\ \A x \in DOMAIN metricsEvents \ {id} :
                       metricsEvents'[x] = metricsEvents[x]
                 /\ metricsEvents'[id] =
                       [metricsEvents[id] EXCEPT !.action_at = Some(now'),
                                                 !.days_saved = d]]_vars

(* An action was reported for an event that was never detected while another *)
(* event is tracked                                                          *)
C20_Witness ==
    /\ lastCall = Call("track_action", "EVT_2", None, 42)
    /\ DOMAIN metricsEvents = {"EVT_1"}
    /\ metricsEvents["EVT_1"].action_at # None
    /\ snap # None
    /\ snap[1] = get_metrics_snapshot(metricsEvents)

(* The action deltas of the acted events, and those the MTTA mean keeps *)
ActionDelta(events) == [id \in Acted(events) |->
                           events[id].action_at[1] - events[id].detected_at]
KeptActionDeltas(events) ==
    {id \in Acted(events) : ActionDelta(events)[id] >= 0}

SnapshotCall == Call("get_metrics_snapshot", "", None, 0)

(* C21: a snapshot reports MTTD as null whenever no tracked event has a     *)
(* non-negative detection delta, and MTTA as null whenever no acted event   *)
(* has a non-negative action delta                                          *)
C21_NullWhenNothingToAverage ==
    [][(lastCall' = SnapshotCall)
         => /\ (KeptDeltas(metricsEvents) = {})
                  => snap'[1].mttd_seconds = None
            /\ (KeptActionDeltas(metricsEvents) = {})
                  => snap'[1].mtta_seconds = None]_vars

(* A mean within half a tenth of sum / count: mean is in tenths, sum in units *)
IsRoundedMean(mean, sum, count) ==
    LET diff == mean * count - 10 * sum
    IN  /\ 2 * diff <= count
        /\ 2 * diff >= 0 - count

(* C22: when some tracked event has a non-negative detection delta, the     *)
(* MTTD of a snapshot is the mean of the non-negative deltas only, to the   *)
(* tenth of a second: an event with a negative delta is in neither the sum  *)
(* nor the count; MTTA likewise over the acted events                        *)
C22_MeanOverNonNegative ==
    [][(lastCall' = SnapshotCall)
         => /\ (KeptDeltas(metricsEvents) # {})
                  => /\ snap'[1].mttd_seconds # None
                     /\ IsRoundedMean(snap'[1].mttd_seconds[1],
                                      SumOf(KeptDeltas(metricsEvents),
                                            Delta(metricsEvents)),
                                      Cardinality(KeptDeltas(metricsEvents)))
            /\ (KeptActionDeltas(metricsEvents) # {})
                  => /\ snap'[1].mtta_seconds # None
                     /\ IsRoundedMean(snap'[1].mtta_seconds[1],
                                      SumOf(KeptActionDeltas(metricsEvents),
                                            ActionDelta(metricsEvents)),
                                      Cardinality(KeptActionDeltas(metricsEvents)))]_vars

(* A snapshot of two events, one detected 10 s after it occurred and one    *)
(* detected before it occurred: MTTD is 10.0 s, and MTTA is 1.0 s           *)
C22_Witness ==
    /\ lastCall = SnapshotCall
    /\ snap # None
    /\ DOMAIN metricsEvents = EventIds
    /\ Delta(metricsEvents)["EVT_1"] = 10
    /\ Delta(metricsEvents)["EVT_2"] < 0
    /\ snap[1].mttd_seconds = Some(100)
    /\ snap[1].mtta_seconds = Some(10)

RowsOf(rows, id) == {k \in DOMAIN rows : rows[k].event_id = id}

(* C24: each append leaves exactly one row for its event id, every field of *)
(* which is that of the append, and leaves the rows of the other event ids  *)
(* as they were; so of two appends with the same id, with any appends in    *)
(* between, the later is the one the table holds                            *)
C24_UpsertLastWins ==
    [][(committed' # committed)
         => LET row == committed'[Len(committed')]
            IN  /\ Cardinality(RowsOf(memoryEvents', row.event_id)) = 1
                /\ memoryEvents'[row.event_id] = row
                /\ DOMAIN memoryEvents'
                      = DOMAIN memoryEvents \cup {row.event_id}
                /\ \A id \in DOMAIN memoryEvents \ {row.event_id} :
                      memoryEvents'[id] = memoryEvents[id]]_vars

(* Three appends in sequence: a row for an event id, a row for another, and *)
(* a different row for the first id again                                   *)
C24_Witness ==
    /\ Len(committed) = 3
    /\ committed[1].event_id = committed[3].event_id
    /\ committed[1].action_taken # committed[3].action_taken
    /\ committed[2].event_id # committed[1].event_id
    /\ memoryEvents[committed[3].event_id] = committed[3]
    /\ memoryEvents[committed[2].event_id] = committed[2]
    /\ Cardinality(RowsOf(memoryEvents, committed[1].event_id)) = 1

----------------------------------------------------------------------------
(* Suggestions, src/src/suggestions.py: generate_suggestions applied on its *)
(* own. Confidence is in hundredths.                                        *)

Suggestion(action, description, confidence, priority, auto_execute) ==
    [action |-> action, description |-> description, confidence |-> confidence,
     priority |-> priority, auto_execute |-> auto_execute]

(* The suggestions in the order the function appends them *)
Candidates(event_type, risk_score, location) ==
    (IF risk_score > 80
     THEN <<Suggestion("REROUTE_SHIPMENT", <<"reroute through", location>>,
                       95, "CRITICAL", TRUE),
            Suggestion("NOTIFY_STAKEHOLDERS", <<"emergency alerts">>,
                       92, "CRITICAL", TRUE)>>
     ELSE <<>>)
    \o
    (IF risk_score > 50
     THEN <<Suggestion("PRIORITIZE_CRITICAL", <<"expedite">>, 85, "HIGH", FALSE),
            Suggestion("SCHEDULE_ALTERNATIVE", <<"pre-book">>, 78, "HIGH", FALSE)>>
     ELSE <<>>)
    \o
    (IF event_type = "BLOCKAGE" \/ event_type = "Canal Blockage"
     THEN <<Suggestion("ACTIVATE_CAPE_ROUTE", <<"cape route">>, 88, "HIGH",
                       risk_score > 85)>>
     ELSE <<>>)
    \o
    (IF event_type = "STRIKE" \/ event_type = "Port Strike"
     THEN <<Suggestion("DIVERT_TO_NEARBY_PORT", <<"redirect">>, 82, "HIGH", FALSE)>>
     ELSE <<>>)
    \o
    (IF event_type = "TARIFF" \/ event_type = "Trade Tariff"
     THEN <<Suggestion("OPTIMIZE_CUSTOMS", <<"pre-clear">>, 75, "MEDIUM", FALSE)>>
     ELSE <<>>)

(* list.sort(key=lambda x: -x["confidence"]): a stable sort, here by        *)
(* insertion after the items whose key is not greater                       *)
InsertByConfidence(sorted, item) ==
    LET pos == Cardinality({j \in 1..Len(sorted) :
                   0 - sorted[j].confidence <= 0 - item.confidence})
    IN  SubSeq(sorted, 1, pos) \o <<item>> \o SubSeq(sorted, pos + 1, Len(sorted))

RECURSIVE SortByConfidence(_)
SortByConfidence(items) ==
    IF items = <<>> THEN <<>>
    ELSE InsertByConfidence(SortByConfidence(SubSeq(items, 1, Len(items) - 1)),
                            items[Len(items)])

(* suggestions[:5] *)
Top5(items) == SubSeq(items, 1, Min(5, Len(items)))

(* The function without its sort *)
generate_suggestions_unsorted(event_type, risk_score, location) ==
    Top5(Candidates(event_type, risk_score, location))

generate_suggestions(event_type, risk_score, location) ==
    Top5(SortByConfidence(Candidates(event_type, risk_score, location)))

EventTypes == {"BLOCKAGE", "Canal Blockage", "STRIKE", "Port Strike", "TARIFF",
               "Trade Tariff", "Weather"}

(* Risk scores at and next to the thresholds 50, 80 and 85 *)
RiskScores == {0, 50, 51, 80, 81, 85, 86, 100}

SuggestArgs == [event_type : EventTypes, risk_score : RiskScores,
                location : {LocSuez, LocNowhere}]

(* The same arguments are passed to the function MaxCalls times *)
MaxCalls == 2

SuggestInit ==
    /\ pc = "IDLE"
    /\ entry = "none"
    /\ raw_event = NoEvent
    /\ active_shipments = <<>>
    /\ affected_shipments = <<>>
    /\ analysis_logs = <<>>
    /\ decisions = <<>>
    /\ actions_taken = <<>>
    /\ idx = 1
    /\ metricsEvents = EmptyDict
    /\ memoryEvents = EmptyDict
    /\ dispatched = {}
    /\ emitted = <<>>
    /\ executorCalls = <<>>
    /\ llmLog = <<>>
    /\ sinkFailed = FALSE
    /\ error = "none"
    /\ reasoning \in {r \in EngineConfigs : ~r.primary}
    /\ now = Epoch
    /\ writers = <<>>
    /\ dbLock = None
    /\ committed = <<>>
    /\ lastCall = None
    /\ snap = None
    /\ called \in SuggestArgs
    /\ returned = <<>>

(* generate_suggestions(event_type, risk_score, location) *)
Suggest ==
    /\ Len(returned) < MaxCalls
    /\ returned' = Append(returned,
                          generate_suggestions(called.event_type,
                                               called.risk_score,
                                               called.location))
    /\ UNCHANGED <<runVars, metricsEvents, memoryEvents, now, storeVars,
                   trackerVars, called>>

SuggestNext == Suggest

SuggestSpec == SuggestInit /\ [][SuggestNext]_vars

----------------------------------------------------------------------------
(* The replay of src/src/replay_mode.py: one run of the graph on the fixed  *)
(* event and shipment list.                                                 *)

(* "timestamp": 1700000000.0, a time well before the clock of the run *)
ScenarioTimestamp == Epoch - 20

(* The scenario carries its time under the key "timestamp" and has no key   *)
(* "timestamp_epoch"                                                        *)
SCENARIO_RED_SEA ==
    [event_id |-> "REPLAY_EVT_001",
     topic |-> <<"Canal", " ", "Blockage">>,
     location |-> <<"Suez", " ", "Canal">>,
     severity |-> 10,
     timestamp |-> ScenarioTimestamp,
     timestamp_epoch |-> None]

(* The shipment has no cargo_type *)
ACTIVE_SHIPMENTS ==
    <<[shipment_id |-> "SHP_REPLAY_1",
       route_id |-> <<"Route", "_", "Suez", "_", "EU">>,
       current_location |-> <<"Suez", " ", "Canal">>,
       cargo_type |-> <<>>]>>

(* result = await agent_graph.ainvoke(state) *)
run_replay ==
    /\ UNCHANGED sideVars
    /\ pc = "IDLE"
    /\ raw_event' = SCENARIO_RED_SEA
    /\ active_shipments' = ACTIVE_SHIPMENTS
    /\ pc' = "OBSERVE"
    /\ entry' = "graph"
    /\ UNCHANGED <<affected_shipments, analysis_logs, decisions, actions_taken,
                   idx, metricsEvents, memoryEvents, emitted, executorCalls,
                   llmLog, dispatched, sinkFailed, error, reasoning, now>>

ReplayNext ==
    \/ run_replay
    \/ Observe
    \/ retrieve_context
    \/ AnalyzeStep
    \/ AnalyzeReturn
    \/ DecideStep
    \/ DecideReturn
    \/ ActStep
    \/ ActReturn

ReplaySpec == Init /\ [][ReplayNext]_vars

(* The run of the replay has left the stage *)
Past(stages) == pc \notin ({"IDLE"} \cup stages)

ReplayRecord ==
    IF "REPLAY_EVT_001" \in DOMAIN memoryEvents
    THEN Some(memoryEvents["REPLAY_EVT_001"]) ELSE None

RerouteRecorded ==
    /\ ReplayRecord # None
    /\ ReplayRecord[1].action_taken = "REROUTE"
    /\ ReplayRecord[1].days_saved = 42

RunRecords ==
    {k \in DOMAIN memoryEvents :
        /\ memoryEvents[k].event_id = raw_event.event_id
        /\ memoryEvents[k].timestamp >= Epoch}

C29_ActionWrittenOnce ==
    [][(/\ pc = "ACT"
        /\ raw_event.event_id \in DOMAIN metricsEvents
        /\ metricsEvents'[raw_event.event_id] # metricsEvents[raw_event.event_id])
         => actions_taken = <<>>]_vars

----------------------------------------------------------------------------
(* ReasoningEngine.recommend_action applied on its own,                     *)
(* src/src/reasoning.py:189-204.                                            *)

(* Analysis texts handed to recommend_action *)
AnalysisTexts == {<<"Mock", "Analysis">>, <<"Impact">>,
                  <<"CRITICAL", " ", "impact">>}

(* Risk scores at and next to the thresholds 50 and 80 *)
FallbackRisks == {0, 50, 51, 80, 81, 100}

RecommendArgs == [impact_analysis : AnalysisTexts, risk_score : FallbackRisks]

RecommendInit ==
    /\ pc = "IDLE"
    /\ entry = "none"
    /\ raw_event = NoEvent
    /\ active_shipments = <<>>
    /\ affected_shipments = <<>>
    /\ analysis_logs = <<>>
    /\ decisions = <<>>
    /\ actions_taken = <<>>
    /\ idx = 1
    /\ metricsEvents = EmptyDict
    /\ memoryEvents = EmptyDict
    /\ dispatched = {}
    /\ emitted = <<>>
    /\ executorCalls = <<>>
    /\ llmLog = <<>>
    /\ sinkFailed = FALSE
    /\ error = "none"
    /\ reasoning \in EngineConfigs
    /\ now = Epoch
    /\ writers = <<>>
    /\ dbLock = None
    /\ committed = <<>>
    /\ lastCall = None
    /\ snap = None
    /\ called \in RecommendArgs
    /\ returned = <<>>

(* self.reasoning.recommend_action(log, risk): the analysis text goes into  *)
(* the prompt of the providers and nowhere else                             *)
Recommend ==
    /\ Len(returned) < MaxCalls
    /\ \E out \in RecommendOutcomes :
          returned' = Append(returned,
                [answered |-> invoke_with_fallback(reasoning, out) # None,
                 text |-> recommend_action(reasoning, out, called.risk_score)])
    /\ UNCHANGED <<runVars, metricsEvents, memoryEvents, now, storeVars,
                   trackerVars, called>>

RecommendNext == Recommend

RecommendSpec == RecommendInit /\ [][RecommendNext]_vars

(* C30: when no provider answers, the recommendation is tagged CRITICAL for *)
(* risk > 80, WARNING for 50 < risk <= 80 and ADVISORY for risk <= 50,      *)
(* whatever the analysis text                                               *)
C30_FallbackByRisk ==
    \A c \in DOMAIN returned :
        ~returned[c].answered
        => LET risk == called.risk_score
               tag == Head(returned[c].text)
           IN  /\ risk > 80 => tag = "CRITICAL"
               /\ (risk > 50 /\ risk <= 80) => tag = "WARNING"
               /\ risk <= 50 => tag = "ADVISORY"
               /\ \A w \in {"CRITICAL", "WARNING", "ADVISORY"} \ {tag} :
                     ~Contains(returned[c].text, <<w>>)

(* Risk exactly 80 and an analysis that speaks of a critical impact: with   *)
(* all providers failing the recommendation is a WARNING; a second call     *)
(* with the same arguments was answered by a provider                       *)
C30_Witness ==
    /\ Len(returned) = 2
    /\ called.risk_score = 80
    /\ called.impact_analysis = <<"CRITICAL", " ", "impact">>
    /\ reasoning.primary
    /\ ~returned[1].answered
    /\ Head(returned[1].text) = "WARNING"
    /\ returned[2].answered

(* ------------------------------------------------------------------------ *)
(* analyze and decide, iteration by iteration                               *)
(* ------------------------------------------------------------------------ *)

(* The decisions a shipment of this risk can get, whatever the other        *)
(* shipments of the run are                                                 *)
DecisionsFor(shp) ==
    {[shipment_id |-> shp.shipment_id,
      recommendation |-> recommend_action(reasoning, out, shp.risk_score),
      risk |-> shp.risk_score,
      confidence |-> Some(Confidence(shp.risk_score))] :
        out \in RecommendOutcomes}

(* C31: analyze appends one analysis per affected shipment in the list's    *)
(* order and decide appends one decision per affected shipment in the same  *)
(* order; decision i carries shipment i's id and risk and is one of the     *)
(* decisions shipment i alone can get, whether or not the collaborator      *)
(* failed for it or for another shipment; decide starts with one analysis   *)
(* per shipment and hands act one decision per shipment                     *)
C31_OneAnalysisOneDecisionInOrder ==
    [][/\ (pc = "ANALYZE" /\ analysis_logs' # analysis_logs)
            => LET i == Len(analysis_logs) + 1
               IN  /\ i <= Len(affected_shipments)
                   /\ Len(analysis_logs') = i
                   /\ SubSeq(analysis_logs', 1, i - 1) = analysis_logs
                   /\ analysis_logs'[i].shipment_id =
                        affected_shipments[i].shipment_id
                   /\ analysis_logs'[i].impact =
                        IF llmLog'[Len(llmLog')] THEN <<"Mock", "Analysis">>
                        ELSE <<"Impact">>
       /\ (pc = "DECIDE" /\ decisions' # decisions)
            => LET i == Len(decisions) + 1
               IN  /\ i <= Len(affected_shipments)
                   /\ Len(decisions') = i
                   /\ SubSeq(decisions', 1, i - 1) = decisions
                   /\ decisions'[i] \in DecisionsFor(affected_shipments[i])
                   /\ llmLog'[Len(llmLog')]
                        => Tag(decisions'[i]) =
                             ThresholdTag(affected_shipments[i].risk_score)
                   /\ analysis_logs'[i].shipment_id = decisions'[i].shipment_id
       /\ (pc = "ANALYZE" /\ pc' = "DECIDE")
            => Len(analysis_logs) = Len(affected_shipments)
       /\ (pc = "DECIDE" /\ pc' = "ACT")
            => /\ Len(decisions) = Len(affected_shipments)
               /\ Len(analysis_logs) = Len(affected_shipments)
       /\ (pc \in {"ANALYZE", "DECIDE"})
            => affected_shipments' = affected_shipments]_vars

(* decide has finished for two shipments of different risk: every client    *)
(* failed on the first shipment's analysis and answered on the second's,    *)
(* and the decisions are in the order of the shipments                      *)
C31_Witness ==
    /\ entry = "graph"
    /\ pc = "ACT"
    /\ idx = 1
    /\ Len(affected_shipments) = 2
    /\ affected_shipments[1].risk_score # affected_shipments[2].risk_score
    /\ Len(llmLog) = 4
    /\ llmLog[1] /\ ~llmLog[2]
    /\ llmLog[3] /\ ~llmLog[4]
    /\ decisions[1].shipment_id = affected_shipments[1].shipment_id
    /\ decisions[2].shipment_id = affected_shipments[2].shipment_id
    /\ decisions[1].shipment_id # decisions[2].shipment_id

(* ------------------------------------------------------------------------ *)
(* decide on its own: SentinelAgent.decide called with a state whose        *)
(* affected shipments carry any risk score, or none                         *)
(* ------------------------------------------------------------------------ *)

DecideRisks == {0, 89, 90, 91, 100}

(* decide reads the shipment's id and its risk score and nothing else *)
DecideShipments ==
    {[shipment_id |-> id] : id \in {"SHP_A", "SHP_B"}}
      \cup [shipment_id : {"SHP_A", "SHP_B"}, risk_score : DecideRisks]

DecideInputs == UNION {[1..n -> DecideShipments] : n \in 1..MaxDecisions}

DecideInit ==
    /\ pc = "DECIDE"
    /\ entry = "decide"
    /\ raw_event \in ActEvents
    /\ active_shipments = <<>>
    /\ affected_shipments \in DecideInputs
    /\ analysis_logs = [i \in DOMAIN affected_shipments |->
                           [shipment_id |-> affected_shipments[i].shipment_id,
                            impact |-> <<"Impact">>]]
    /\ decisions = <<>>
    /\ actions_taken = <<>>
    /\ idx = 1
    /\ metricsEvents = EmptyDict
    /\ memoryEvents = EmptyDict
    /\ dispatched = {}
    /\ emitted = <<>>
    /\ executorCalls = <<>>
    /\ llmLog = <<>>
    /\ sinkFailed = FALSE
    /\ error = "none"
    /\ reasoning \in EngineConfigs
    /\ now = Epoch
    /\ writers = <<>>
    /\ dbLock = None
    /\ committed = <<>>
    /\ lastCall = None
    /\ snap = None
    /\ called = None
    /\ returned = None

DecideNext == DecideStep \/ DecideReturn

DecideSpec == DecideInit /\ [][DecideNext]_vars

(* C32: every decision's confidence is fixed by the shipment's risk score   *)
(* alone: 0.95 when the risk is below 90 and 0.85 when it is 90 or more, a  *)
(* shipment without a risk score counting as risk 0                         *)
C32_ConfidenceByRisk ==
    \A i \in DOMAIN decisions :
        LET shp == affected_shipments[i]
            scored == "risk_score" \in DOMAIN shp
        IN  /\ (~scored) => /\ decisions[i].risk = 0
                            /\ decisions[i].confidence = Some(95)
            /\ (scored /\ shp.risk_score < 90)
                  => decisions[i].confidence = Some(95)
            /\ (scored /\ shp.risk_score >= 90)
                  => decisions[i].confidence = Some(85)
            /\ scored => decisions[i].risk = shp.risk_score

(* decide has returned for a shipment without a risk score and one of risk  *)
(* 90: confidences 0.95 and 0.85                                            *)
C32_Witness ==
    /\ entry = "decide"
    /\ pc = "ACT"
    /\ Len(decisions) = 2
    /\ "risk_score" \notin DOMAIN affected_shipments[1]
    /\ decisions[1].confidence = Some(95)
    /\ "risk_score" \in DOMAIN affected_shipments[2]
    /\ affected_shipments[2].risk_score = 90
    /\ decisions[2].confidence = Some(85)

(* ------------------------------------------------------------------------ *)
(* The occurrence time observe records                                      *)
(* ------------------------------------------------------------------------ *)

(* The occurrence timestamp an event carries, under either of the keys the  *)
(* event sources use                                                        *)
ProvidedTimestamp(event) ==
    IF event.timestamp_epoch # None THEN event.timestamp_epoch
    ELSE IF "timestamp" \in DOMAIN event THEN Some(event.timestamp)
    ELSE None

(* C33: once observe has run, the tracker holds the event's detection, with *)
(* occurred_at equal to the occurrence timestamp the event carries when it  *)
(* carries one; with none, the estimate recorded is not later than          *)
(* detected_at                                                              *)
C33_ProvidedTimestampRecorded ==
    (entry = "graph" /\ Past({"OBSERVE"}))
    => /\ raw_event.event_id \in DOMAIN metricsEvents
       /\ LET m == metricsEvents[raw_event.event_id]
              provided == ProvidedTimestamp(raw_event)
          IN  /\ provided # None => m.occurred_at = provided[1]
              /\ provided = None => m.occurred_at <= m.detected_at

(* ------------------------------------------------------------------------ *)
(* The safety check in runs of the graph                                    *)
(* ------------------------------------------------------------------------ *)

OtherMetrics ==
    [id \in DOMAIN metricsEvents \ {raw_event.event_id} |-> metricsEvents[id]]

(* C35: when act has returned after dispatching for several decisions of    *)
(* one event, the Metrics Tracker's days_saved and the Audit Store record's *)
(* action_taken, days_saved and severity are those of the decision          *)
(* dispatched last, and the event adds that one days_saved, and no other,   *)
(* to estimated_days_saved                                                  *)
C35_LastDispatchWins ==
    (pc = "END" /\ executorCalls # <<>>)
    => LET id == raw_event.event_id
           last == executorCalls[Len(executorCalls)]
           dec == decisions[last.decision]
           critical == IsSubstring(<<"CRITICAL">>, dec.recommendation)
           days == IF critical THEN 42 ELSE 5
       IN  /\ \A c \in DOMAIN executorCalls :
                 executorCalls[c].decision <= last.decision
           /\ memoryEvents[id].action_taken =
                 IF critical THEN "REROUTE" ELSE "ALERT"
           /\ memoryEvents[id].days_saved = days
           /\ memoryEvents[id].severity = dec.risk
           /\ id \in DOMAIN metricsEvents
                => /\ metricsEvents[id].days_saved = days
                   /\ metricsEvents[id].action_at # None
                   /\ get_metrics_snapshot(metricsEvents).estimated_days_saved
                        = get_metrics_snapshot(OtherMetrics).estimated_days_saved
                            + days

(* act has returned after a CRITICAL and then a WARNING decision for a      *)
(* tracked event: the tracker and the record hold ALERT and 0.5             *)
C35_Witness ==
    /\ pc = "END"
    /\ Len(executorCalls) = 2
    /\ Tag(decisions[1]) = "CRITICAL"
    /\ Tag(decisions[2]) = "WARNING"
    /\ raw_event.event_id \in DOMAIN metricsEvents
    /\ metricsEvents[raw_event.event_id].days_saved = 5
    /\ memoryEvents[raw_event.event_id].action_taken = "ALERT"
    /\ memoryEvents[raw_event.event_id].days_saved = 5

(* ------------------------------------------------------------------------ *)
(* Detecting again an event that was acted on                               *)
(* ------------------------------------------------------------------------ *)

(* C36: when observe detects an event whose MetricEvent already has an      *)
(* action (track_detection, track_action, track_detection for one id), the  *)
(* MetricEvent comes out with action_at unset and days_saved 0; in the      *)
(* snapshot the event is a predicted delay again and is gone from           *)
(* actions_taken, estimated_days_saved and events_prevented; the Audit      *)
(* Store is left as it was                                                  *)
C36_RedetectionErasesAction ==
    [][(pc = "OBSERVE" /\ pc' # "OBSERVE"
          /\ raw_event.event_id \in Acted(metricsEvents))
       => LET id == raw_event.event_id
              before == get_metrics_snapshot(metricsEvents)
              after == get_metrics_snapshot(metricsEvents')
              old == metricsEvents[id]
          IN  /\ metricsEvents'[id].action_at = None
              /\ metricsEvents'[id].days_saved = 0
              /\ id \in Pending(metricsEvents')
              /\ after.predicted_delays = before.predicted_delays + 1
              /\ after.actions_taken = before.actions_taken - 1
              /\ after.estimated_days_saved =
                    before.estimated_days_saved - old.days_saved
              /\ after.events_prevented =
                    before.events_prevented
                      - (IF old.days_saved > 20 THEN 1 ELSE 0)
              /\ after.events_seen = before.events_seen
              /\ memoryEvents' = memoryEvents]_vars

(* An event that an earlier run acted on and recorded has been observed     *)
(* again: its action is gone from the tracker and its record is still in    *)
(* the Audit Store                                                          *)
C36_Witness ==
    /\ entry = "graph"
    /\ pc = "RETRIEVE"
    /\ raw_event.event_id = "EVT_1"
    /\ metricsEvents["EVT_1"].action_at = None
    /\ metricsEvents["EVT_1"].days_saved = 0
    /\ get_metrics_snapshot(metricsEvents).actions_taken = 0
    /\ get_metrics_snapshot(metricsEvents).predicted_delays = 1
    /\ "EVT_1" \in DOMAIN memoryEvents
    /\ memoryEvents["EVT_1"].action_taken = "REROUTE"

(* ------------------------------------------------------------------------ *)
(* Actions come after detections                                            *)
(* ------------------------------------------------------------------------ *)

(* C37: with a clock that does not go back, in every state of the Metrics   *)
(* Tracker every event that has an action has action_at >= detected_at, so  *)
(* the events the MTTA mean keeps are all the acted events                  *)
C37_ActionAfterDetection ==
    /\ \A id \in Acted(metricsEvents) :
          /\ metricsEvents[id].action_at[1] >= metricsEvents[id].detected_at
          /\ metricsEvents[id].action_at[1] <= now
    /\ KeptActionDeltas(metricsEvents) = Acted(metricsEvents)
    /\ snap # None =>
          (snap[1].mtta_seconds = None <=> snap[1].actions_taken = 0)

(* Two events are tracked; one was detected and acted on before the clock   *)
(* moved, the other detected after it moved and acted on last               *)
C37_Witness ==
    /\ lastCall = Call("track_action", "EVT_2", None, 5)
    /\ Acted(metricsEvents) = {"EVT_1", "EVT_2"}
    /\ metricsEvents["EVT_1"].detected_at = Epoch
    /\ metricsEvents["EVT_1"].action_at = Some(Epoch)
    /\ metricsEvents["EVT_2"].detected_at = Epoch + 1
    /\ metricsEvents["EVT_2"].action_at = Some(Epoch + 1)

(* ------------------------------------------------------------------------ *)
(* Confirmed and inferred matches                                           *)
(* ------------------------------------------------------------------------ *)

(* C38: a result of the Risk Matcher is all direct (no context has an       *)
(* inference_note) or all inferred (every context has one, naming the       *)
(* event's location); inferred contexts are returned only when no shipment  *)
(* of the snapshot matched directly; and every context carries the event's  *)
(* id as trigger_event_id                                                   *)
C38_DirectOrInferredNeverMixed ==
    Matched
    => /\ \/ \A k \in DOMAIN affected_shipments :
                 IsDirect(affected_shipments[k])
          \/ \A k \in DOMAIN affected_shipments :
                 /\ IsInferred(affected_shipments[k])
                 /\ affected_shipments[k].inference_note
                       = Some(raw_event.location)
       /\ (\E k \in DOMAIN affected_shipments :
               IsInferred(affected_shipments[k]))
             => ExpectedDirect = <<>>
       /\ \A k \in DOMAIN affected_shipments :
             affected_shipments[k].trigger_event_id = raw_event.event_id

(* A severe event far from a pool of three: two inferred contexts, both     *)
(* marked, both carrying the event's id                                     *)
C38_Witness ==
    /\ Matched
    /\ raw_event.location = LocNowhere
    /\ raw_event.severity = 5
    /\ Len(active_shipments) = 3
    /\ Len(affected_shipments) = 2
    /\ \A k \in 1..2 : /\ IsInferred(affected_shipments[k])
                       /\ affected_shipments[k].trigger_event_id = "EVT_1"

(* ------------------------------------------------------------------------ *)
(* Events without a location                                                *)
(* ------------------------------------------------------------------------ *)

(* C39: for an event whose location is missing, empty or only whitespace    *)
(* the Risk Matcher returns every shipment of the snapshot, in order, as a  *)
(* direct match without inference_note, scored severity * 10, times 1.5 for *)
(* medical cargo, capped at 100, whatever the shipments' locations and      *)
(* routes and whatever the severity                                         *)
C39_NoLocationMatchesAll ==
    (Matched /\ \A k \in DOMAIN raw_event.location :
                    raw_event.location[k] = " ")
    => /\ IdsOf(affected_shipments) = IdsOf(active_shipments)
       /\ \A k \in DOMAIN affected_shipments :
            LET shp == active_shipments[k]
                ctx == affected_shipments[k]
                medical == \E j \in DOMAIN shp.cargo_type :
                              shp.cargo_type[j] = "Medical"
                score == raw_event.severity * (IF medical THEN 15 ELSE 10)
            IN  /\ ctx.inference_note = None
                /\ ctx.risk_score = IF score > 100 THEN 100 ELSE score
                /\ ctx.current_location = shp.current_location
                /\ ctx.route_id = shp.route_id

(* An event of severity 2 with a location of spaces, and three shipments at *)
(* three places: all three are returned as direct matches                   *)
C39_Witness ==
    /\ Matched
    /\ raw_event.location = LocBlank
    /\ raw_event.severity = 2
    /\ IdsOf(active_shipments) = <<"SHP_A", "SHP_C", "SHP_D">>
    /\ IdsOf(affected_shipments) = <<"SHP_A", "SHP_C", "SHP_D">>
    /\ affected_shipments[1].risk_score = 30
    /\ affected_shipments[2].risk_score = 20

(* ------------------------------------------------------------------------ *)
(* Auto-execution of suggestions, src/src/suggestions.py                    *)
(* ------------------------------------------------------------------------ *)

(* An eligibility test that trusts the flag alone *)
should_auto_execute_flag_only(suggestion) == suggestion.auto_execute

(* suggestion.get("auto_execute", False) and                                *)
(* suggestion.get("confidence", 0) > 0.9                                    *)
should_auto_execute(suggestion) ==
    suggestion.auto_execute /\ suggestion.confidence > 90

AutoExecInit ==
    /\ pc = "IDLE"
    /\ entry = "none"
    /\ raw_event = NoEvent
    /\ active_shipments = <<>>
    /\ affected_shipments = <<>>
    /\ analysis_logs = <<>>
    /\ decisions = <<>>
    /\ actions_taken = <<>>
    /\ idx = 1
    /\ metricsEvents = EmptyDict
    /\ memoryEvents = EmptyDict
    /\ dispatched = {}
    /\ emitted = <<>>
    /\ executorCalls = <<>>
    /\ llmLog = <<>>
    /\ sinkFailed = FALSE
    /\ error = "none"
    /\ reasoning \in {r \in EngineConfigs : ~r.primary}
    /\ now = Epoch
    /\ writers = <<>>
    /\ dbLock = None
    /\ committed = <<>>
    /\ lastCall = None
    /\ snap = None
    /\ called \in SuggestArgs
    /\ returned = <<>>

(* should_auto_execute applied to each suggestion generate_suggestions      *)
(* returned                                                                 *)
AutoExec ==
    /\ Len(returned) < MaxCalls
    /\ LET suggestions == generate_suggestions(called.event_type,
                                               called.risk_score,
                                               called.location)
       IN  returned' = Append(returned,
                 [suggestions |-> suggestions,
                  eligible |-> [k \in DOMAIN suggestions |->
                                   should_auto_execute(suggestions[k])]])
    /\ UNCHANGED <<runVars, metricsEvents, memoryEvents, now, storeVars,
                   trackerVars, called>>

AutoExecNext == AutoExec

AutoExecSpec == AutoExecInit /\ [][AutoExecNext]_vars

(* C40: for every event type, risk score and location, a returned           *)
(* suggestion is eligible for auto-execution only when the risk is above 80 *)
(* and the suggestion is the reroute or the stakeholder notification; the   *)
(* cape-route suggestion is never eligible, its flag set or not; and at a   *)
(* risk of 80 or less nothing returned is eligible                          *)
C40_AutoExecuteOnlyCritical ==
    \A c \in DOMAIN returned :
        \A k \in DOMAIN returned[c].suggestions :
            LET sug == returned[c].suggestions[k]
                eligible == returned[c].eligible[k]
            IN  /\ eligible => /\ called.risk_score > 80
                               /\ sug.action \in {"REROUTE_SHIPMENT",
                                                  "NOTIFY_STAKEHOLDERS"}
                               /\ sug.auto_execute
                               /\ sug.confidence > 90
                /\ sug.action = "ACTIVATE_CAPE_ROUTE" => ~eligible
                /\ called.risk_score <= 80 => ~eligible

(* A canal blockage at risk 86: the reroute and the notification are        *)
(* eligible, the cape route has its flag set and is not                     *)
C40_Witness ==
    /\ called.event_type = "Canal Blockage"
    /\ called.risk_score = 86
    /\ Len(returned) = 1
    /\ returned[1].eligible = <<TRUE, TRUE, FALSE, FALSE, FALSE>>
    /\ returned[1].suggestions[3].action = "ACTIVATE_CAPE_ROUTE"
    /\ returned[1].suggestions[3].auto_execute

====
